---- MODULE Spec2Model ----
(***************************************************************************)
(* i18nGuard: the Scanner (packages/core/src/scanner/index.ts), the        *)
(* i18next adapter (packages/adapters/src/i18next.ts), the parser front    *)
(* end and the default rules, as a state machine.                          *)
(*                                                                         *)
(* One Scanner object is shared by a bounded number of scan() and          *)
(* scanSingleFile() invocations.  An invocation is an async function: it   *)
(* runs atomically from one await to the next, and the steps of different  *)
(* invocations interleave at the awaits.                                   *)
(***************************************************************************)
EXTENDS Integers, Sequences, FiniteSets, TLC

\* ------------------------------------------------------------------ bounds
MaxCalls == 2
MaxEnvChanges == 1

Null == "null"

\* ----------------------------------------------------------------- strings
\* A JavaScript string is a sequence of UTF-16 code units; CharTable gives
\* the code units of every string the model works with.
CharTable ==
    "src/App.tsx" :> <<115,114,99,47,65,112,112,46,116,115,120>> @@
    "src/Nav.jsx" :> <<115,114,99,47,78,97,118,46,106,115,120>> @@
    "src/App.test.tsx" :> <<115,114,99,47,65,112,112,46,116,101,115,116,46,116,115,120>> @@
    "locales/en/common.json" :> <<108,111,99,97,108,101,115,47,101,110,47,99,111,109,109,111,110,46,106,115,111,110>> @@
    "locales/fr/common.json" :> <<108,111,99,97,108,101,115,47,102,114,47,99,111,109,109,111,110,46,106,115,111,110>> @@
    "I18N001" :> <<73,49,56,78,48,48,49>> @@
    "I18N002" :> <<73,49,56,78,48,48,50>> @@
    "I18N003" :> <<73,49,56,78,48,48,51>> @@
    ".ts" :> <<46,116,115>> @@
    ".tsx" :> <<46,116,115,120>> @@
    ".js" :> <<46,106,115>> @@
    ".jsx" :> <<46,106,115,120>> @@
    "node_modules" :> <<110,111,100,101,95,109,111,100,117,108,101,115>> @@
    ".test." :> <<46,116,101,115,116,46>> @@
    " Hello there " :> <<32,72,101,108,108,111,32,116,104,101,114,101,32>> @@
    "Hello there" :> <<72,101,108,108,111,32,116,104,101,114,101>> @@
    " OK " :> <<32,79,75,32>> @@
    "OK" :> <<79,75>> @@
    "placeholder" :> <<112,108,97,99,101,104,111,108,100,101,114>> @@
    "data-" :> <<100,97,116,97,45>> @@
    "   " :> <<32,32,32>> @@
    "ab" :> <<97,98>> @@
    "abc" :> <<97,98,99>> @@
    "123" :> <<49,50,51>> @@
    "12.5" :> <<49,50,46,53>> @@
    "(1)" :> <<40,49,41>> @@
    "..." :> <<46,46,46>> @@
    "100%" :> <<49,48,48,37>> @@
    "***" :> <<42,42,42>> @@
    "true" :> <<116,114,117,101>> @@
    "false" :> <<102,97,108,115,101>> @@
    "null" :> <<110,117,108,108>> @@
    "undefined" :> <<117,110,100,101,102,105,110,101,100>> @@
    "id" :> <<105,100>> @@
    "key" :> <<107,101,121>> @@
    "ref" :> <<114,101,102>> @@
    "style" :> <<115,116,121,108,101>> @@
    "className" :> <<99,108,97,115,115,78,97,109,101>> @@
    "onClick" :> <<111,110,67,108,105,99,107>> @@
    "onChange" :> <<111,110,67,104,97,110,103,101>> @@
    "onSubmit" :> <<111,110,83,117,98,109,105,116>> @@
    " key " :> <<32,107,101,121,32>> @@
    "Key" :> <<75,101,121>> @@
    "Enter your email here" :> <<69,110,116,101,114,32,121,111,117,114,32,101,109,97,105,108,32,104,101,114,101>> @@
    "title" :> <<116,105,116,108,101>> @@
    "alt" :> <<97,108,116>> @@
    "aria-label" :> <<97,114,105,97,45,108,97,98,101,108>> @@
    "aria-description" :> <<97,114,105,97,45,100,101,115,99,114,105,112,116,105,111,110>> @@
    "label" :> <<108,97,98,101,108>> @@
    "aria-placeholder" :> <<97,114,105,97,45,112,108,97,99,101,104,111,108,100,101,114>> @@
    "aria-valuetext" :> <<97,114,105,97,45,118,97,108,117,101,116,101,120,116>> @@
    "data-testid" :> <<100,97,116,97,45,116,101,115,116,105,100>> @@
    "href" :> <<104,114,101,102>> @@
    "plural" :> <<112,108,117,114,97,108>> @@
    "select" :> <<115,101,108,101,99,116>> @@
    "selectordinal" :> <<115,101,108,101,99,116,111,114,100,105,110,97,108>> @@
    "number" :> <<110,117,109,98,101,114>> @@
    "date" :> <<100,97,116,101>> @@
    "time" :> <<116,105,109,101>> @@
    "other" :> <<111,116,104,101,114>> @@
    "zero" :> <<122,101,114,111>> @@
    "one" :> <<111,110,101>> @@
    "two" :> <<116,119,111>> @@
    "few" :> <<102,101,119>> @@
    "many" :> <<109,97,110,121>> @@
    "=0" :> <<61,48>> @@
    "=1" :> <<61,49>> @@
    "{count, plural, one {1 item} other {# items}}" :> <<123,99,111,117,110,116,44,32,112,108,117,114,97,108,44,32,111,110,101,32,123,49,32,105,116,101,109,125,32,111,116,104,101,114,32,123,35,32,105,116,101,109,115,125,125>> @@
    "{count, plural, one {1 item}}" :> <<123,99,111,117,110,116,44,32,112,108,117,114,97,108,44,32,111,110,101,32,123,49,32,105,116,101,109,125,125>> @@
    "{count, plural, one {another item}}" :> <<123,99,111,117,110,116,44,32,112,108,117,114,97,108,44,32,111,110,101,32,123,97,110,111,116,104,101,114,32,105,116,101,109,125,125>> @@
    "{n, plural, =0 {none} other {some}}" :> <<123,110,44,32,112,108,117,114,97,108,44,32,61,48,32,123,110,111,110,101,125,32,111,116,104,101,114,32,123,115,111,109,101,125,125>> @@
    "{n, plural, few {some}}" :> <<123,110,44,32,112,108,117,114,97,108,44,32,102,101,119,32,123,115,111,109,101,125,125>> @@
    "{n, selectordinal, one {#st} other {#th}}" :> <<123,110,44,32,115,101,108,101,99,116,111,114,100,105,110,97,108,44,32,111,110,101,32,123,35,115,116,125,32,111,116,104,101,114,32,123,35,116,104,125,125>> @@
    "{n, plural, {x}}" :> <<123,110,44,32,112,108,117,114,97,108,44,32,123,120,125,125>> @@
    "Hello {name}" :> <<72,101,108,108,111,32,123,110,97,109,101,125>> @@
    "{n, bogus}" :> <<123,110,44,32,98,111,103,117,115,125>> @@
    "{, plural, other {x}}" :> <<123,44,32,112,108,117,114,97,108,44,32,111,116,104,101,114,32,123,120,125,125>> @@
    "{n, plural, other {#}" :> <<123,110,44,32,112,108,117,114,97,108,44,32,111,116,104,101,114,32,123,35,125>> @@
    "common" :> <<99,111,109,109,111,110>> @@
    "menu" :> <<109,101,110,117>> @@
    "greeting" :> <<103,114,101,101,116,105,110,103>> @@
    "welcome" :> <<119,101,108,99,111,109,101>> @@
    "src/Main.js" :> <<115,114,99,47,77,97,105,110,46,106,115>> @@
    "" :> <<>>

Utf16(s) == CharTable[s]

FromUtf16(codes) == CHOOSE s \in DOMAIN CharTable : CharTable[s] = codes

\* String.prototype.endsWith, on code units and on strings
IsSuffix(a, b) == Len(b) <= Len(a) /\ SubSeq(a, Len(a) - Len(b) + 1, Len(a)) = b
EndsWith(s, suffix) == IsSuffix(Utf16(s), Utf16(suffix))

\* String.prototype.includes, on code units and on strings
IsInfix(a, b) == \E i \in 1..(Len(a) - Len(b) + 1) : SubSeq(a, i, i + Len(b) - 1) = b
Includes(s, sub) == IsInfix(Utf16(s), Utf16(sub))

\* String.prototype.indexOf, 1-based: the position of the first ch at or after from, 0 when there is none
First(codes, ch, from) ==
    IF \E i \in from..Len(codes) : codes[i] = ch
    THEN CHOOSE i \in from..Len(codes) :
            codes[i] = ch /\ \A k \in from..(i - 1) : codes[k] # ch
    ELSE 0

\* the regular-expression class \s, restricted to the code units in use
IsSpace(c) == c \in {9, 10, 13, 32}

\* String.prototype.trim
RECURSIVE TrimLeft(_)
TrimLeft(codes) ==
    IF codes # <<>> /\ IsSpace(Head(codes)) THEN TrimLeft(Tail(codes)) ELSE codes

RECURSIVE TrimRight(_)
TrimRight(codes) ==
    IF codes # <<>> /\ IsSpace(codes[Len(codes)])
    THEN TrimRight(SubSeq(codes, 1, Len(codes) - 1))
    ELSE codes

Trim(s) == FromUtf16(TrimRight(TrimLeft(Utf16(s))))

\* Number to decimal string, as a template literal renders it
RECURSIVE Dec(_)
Dec(n) == IF n < 10 THEN <<48 + n>> ELSE Dec(n \div 10) \o <<48 + (n % 10)>>

\* ------------------------------------------------------------ simpleHash
\* The accumulator is a 32-bit integer (hash & hash); it is carried as two
\* 16-bit halves <<hi, lo>> of its two's complement representation.
Half == 65536

\* hash = ((hash << 5) - hash) + char; hash = hash & hash
HashChar(h, c) ==
    LET lo == 31 * h[2] + c
        hi == 31 * h[1] + (lo \div Half)
    IN  <<hi % Half, lo % Half>>

\* for (let i = 0; i < str.length; i++): the loop from code unit i on, with
\* accumulator h; the accumulator stays within 32 bits at every step
RECURSIVE HashFrom(_, _, _)
RECURSIVE HashNext(_, _, _)
HashFrom(codes, i, h) ==
    IF i > Len(codes) THEN h ELSE HashNext(codes, i, HashChar(h, codes[i]))

HashNext(codes, i, next) ==
    IF next[1] < Half /\ next[2] < Half THEN HashFrom(codes, i + 1, next) ELSE next

\* Math.abs of the 32-bit value
Abs32(h) ==
    IF h[1] < 32768 THEN h
    ELSE <<(65535 - h[1] + (IF h[2] = 0 THEN 1 ELSE 0)) % Half, (Half - h[2]) % Half>>

\* Number.prototype.toString(36): the base-36 digits, most significant first
RECURSIVE ToString36(_)
Digits36(q, r) == IF q = <<0, 0>> THEN <<r>> ELSE ToString36(q) \o <<r>>
DivMod36(qhi, mid) == Digits36(<<qhi + ((mid \div 36) \div Half), (mid \div 36) % Half>>, mid % 36)
ToString36(h) == DivMod36(h[1] \div 36, (h[1] % 36) * Half + h[2])

simpleHash(codes) == ToString36(Abs32(HashFrom(codes, 1, <<0, 0>>)))

\* variant: the id also carries the message
generateFindingId_withMessage(finding) ==
    <<finding.ruleId,
      simpleHash(Utf16(finding.file) \o <<58>> \o Dec(finding.line) \o <<58>>
                 \o Dec(finding.column) \o <<58>> \o Utf16(finding.ruleId)),
      finding.message>>

\* `${finding.file}:${finding.line}:${finding.column}:${finding.ruleId}`
generateFindingId(finding) ==
    <<finding.ruleId,
      simpleHash(Utf16(finding.file) \o <<58>> \o Dec(finding.line) \o <<58>>
                 \o Dec(finding.column) \o <<58>> \o Utf16(finding.ruleId))>>

WithId(finding) == [id |-> generateFindingId(finding)] @@ finding

\* String.prototype.startsWith, on code units and on strings
IsPrefix(a, b) == Len(b) <= Len(a) /\ SubSeq(a, 1, Len(b)) = b
StartsWith(s, prefix) == IsPrefix(Utf16(s), Utf16(prefix))

\* ------------------------------------------------------- plain JS objects
\* An object with string keys is the sequence of its own enumerable
\* entries [k, v] in insertion order.
Keys(obj) == {obj[i].k : i \in 1..Len(obj)}

\* obj[k] for an own key k
Get(obj, k) == obj[CHOOSE i \in 1..Len(obj) : obj[i].k = k].v

Put(obj, k, v) ==
    IF k \in Keys(obj)
    THEN [i \in 1..Len(obj) |-> IF obj[i].k = k THEN [k |-> k, v |-> v] ELSE obj[i]]
    ELSE Append(obj, [k |-> k, v |-> v])

\* Object.assign(target, src) and the spread {...target, ...src}
RECURSIVE Assign(_, _)
Assign(target, src) ==
    IF src = <<>> THEN target
    ELSE Assign(Put(target, Head(src).k, Head(src).v), Tail(src))

\* Property names every plain object inherits from Object.prototype; the
\* `in` operator finds them although they are no own keys.
ObjectPrototypeKeys == {<<"constructor">>, <<"toString">>, <<"valueOf">>, <<"hasOwnProperty">>}

\* --------------------------------------------------------------- catalogs
\* A key string is the sequence of its ':'-separated parts, so that
\* split(':') and join(':') are exact: 'common:nav.title' is
\* <<"common", "nav.title">>.  JSON property names hold no ':'.
\* A JSON value is [str |-> s] or [obj |-> entries].
Str(s) == [str |-> s]
Obj(entries) == [obj |-> entries]
E(k, v) == [k |-> k, v |-> v]

RECURSIVE flattenCatalog(_, _, _)
flattenCatalog(catalog, namespace, prefix) ==
    IF catalog = <<>> THEN <<>>
    ELSE LET key == Head(catalog).k
             value == Head(catalog).v
             fullKey == IF prefix # "" THEN prefix \o "." \o key ELSE key
             namespacedKey == <<namespace, fullKey>>
             here == IF "str" \in DOMAIN value
                     THEN <<E(namespacedKey, value.str)>>
                     ELSE flattenCatalog(value.obj, namespace, fullKey)
         IN  Assign(here, flattenCatalog(Tail(catalog), namespace, prefix))

Locales == {"en", "fr"}
Namespaces == <<"common">>

\* Catalog documents a locale's common.json can hold; Missing stands for a
\* file that cannot be read or parsed.
Missing == [ok |-> FALSE]
Doc(json) == [ok |-> TRUE, json |-> json]
DOC_FULL == <<E("welcome", Str("Welcome")),
              E("nav", Obj(<<E("title", Str("Title"))>>)),
              E("extra", Str("Extra"))>>
DOC_PART == <<E("welcome", Str("Bienvenue"))>>

\* pathPattern 'locales/{locale}/{ns}.json' with both placeholders replaced
CatalogFile(locale, namespace) == "locales/" \o locale \o "/" \o namespace \o ".json"

\* I18nextAdapter.loadCatalogs: one flattened catalog per configured
\* locale; a namespace file that fails to load is skipped with a warning.
RECURSIVE LoadNamespaces(_, _, _, _)
LoadNamespaces(disk, locale, nss, acc) ==
    IF nss = <<>> THEN acc
    ELSE LET doc == disk[locale][Head(nss)]
             merged == IF ~doc.ok THEN acc
                       ELSE Assign(acc, flattenCatalog(doc.json, Head(nss), ""))
         IN  LoadNamespaces(disk, locale, Tail(nss), merged)

\* the loop over config.locales, for the namespace list nss
LoadLocales(cfg, disk, nss) ==
    [l \in {cfg.locales[i] : i \in 1..Len(cfg.locales)} |->
        LoadNamespaces(disk, l, nss, <<>>)]

loadCatalogs(cfg, disk) == LoadLocales(cfg, disk, Namespaces)

LoadWarnings(cfg, disk) ==
    {[kind |-> "catalog", file |-> CatalogFile(cfg.locales[i], Namespaces[j])] :
        <<i, j>> \in {p \in (1..Len(cfg.locales)) \X (1..Len(Namespaces)) :
                        ~disk[cfg.locales[p[1]]][Namespaces[p[2]]].ok}}

\* ----------------------------------------------------------------- parser
\* Source texts.  "" is the empty source.
\*   S_APP    1: const a = t('common:welcome');
\*            2: const b = <p> Hello there </p>;
\*            3: const c = <input placeholder="Hello there" />;
\*   S_NAV    1: t('common:nav.title');
\*            2: t('common:nav.title');
\*            3: t('constructor');
\*            4: const l = <a xlink:title={t('common:menu')}> OK </a>;
\*            5: t(42);
\*            6: t('common:late', '{count, plural, one {1 item}}');
\*            7: t('welcome');
\*   S_DRAFT  1: t('common:extra');
\*   S_BAD    a text neither parser accepts
Sources == {"S_APP", "S_NAV", "S_DRAFT", "S_BAD", ""}

\* Documents open in the editor, one line each.
\*   D_MENU   <p>{t('common:menu')}</p>
\*   D_GREET  <p>{t('greeting')}</p>
\*   D_BOTH   <p>{t('common:menu')}{t('greeting')}</p>
\*   D_OK     <p>{t('common:welcome')}</p>
Documents == {"D_MENU", "D_GREET", "D_BOTH", "D_OK"}

\* One-line markup sources: an element with a text child, or an element
\* with one attribute whose value is a quoted string.  The table gives what
\* both parsers read from the text.
MarkupTable ==
    "<p>Hello there</p>" :> [kind |-> "text", value |-> "Hello there"] @@
    "<p> Hello there </p>" :> [kind |-> "text", value |-> " Hello there "] @@
    "<p>OK</p>" :> [kind |-> "text", value |-> "OK"] @@
    "<p> OK </p>" :> [kind |-> "text", value |-> " OK "] @@
    "<p></p>" :> [kind |-> "text", value |-> ""] @@
    "<p>   </p>" :> [kind |-> "text", value |-> "   "] @@
    "<p>ab</p>" :> [kind |-> "text", value |-> "ab"] @@
    "<p>abc</p>" :> [kind |-> "text", value |-> "abc"] @@
    "<p>123</p>" :> [kind |-> "text", value |-> "123"] @@
    "<p>12.5</p>" :> [kind |-> "text", value |-> "12.5"] @@
    "<p>(1)</p>" :> [kind |-> "text", value |-> "(1)"] @@
    "<p>...</p>" :> [kind |-> "text", value |-> "..."] @@
    "<p>100%</p>" :> [kind |-> "text", value |-> "100%"] @@
    "<p>***</p>" :> [kind |-> "text", value |-> "***"] @@
    "<p>true</p>" :> [kind |-> "text", value |-> "true"] @@
    "<p>false</p>" :> [kind |-> "text", value |-> "false"] @@
    "<p>null</p>" :> [kind |-> "text", value |-> "null"] @@
    "<p>undefined</p>" :> [kind |-> "text", value |-> "undefined"] @@
    "<p>id</p>" :> [kind |-> "text", value |-> "id"] @@
    "<p>key</p>" :> [kind |-> "text", value |-> "key"] @@
    "<p>ref</p>" :> [kind |-> "text", value |-> "ref"] @@
    "<p>style</p>" :> [kind |-> "text", value |-> "style"] @@
    "<p>className</p>" :> [kind |-> "text", value |-> "className"] @@
    "<p>onClick</p>" :> [kind |-> "text", value |-> "onClick"] @@
    "<p>onChange</p>" :> [kind |-> "text", value |-> "onChange"] @@
    "<p>onSubmit</p>" :> [kind |-> "text", value |-> "onSubmit"] @@
    "<p> key </p>" :> [kind |-> "text", value |-> " key "] @@
    "<p>Key</p>" :> [kind |-> "text", value |-> "Key"] @@
    "<p>Enter your email here</p>" :> [kind |-> "text", value |-> "Enter your email here"] @@
    "<input title='Enter your email here' />" :> [kind |-> "attr", name |-> "title", value |-> "Enter your email here"] @@
    "<input title='OK' />" :> [kind |-> "attr", name |-> "title", value |-> "OK"] @@
    "<input title='100%' />" :> [kind |-> "attr", name |-> "title", value |-> "100%"] @@
    "<input title='true' />" :> [kind |-> "attr", name |-> "title", value |-> "true"] @@
    "<input title='   ' />" :> [kind |-> "attr", name |-> "title", value |-> "   "] @@
    "<input title='12.5' />" :> [kind |-> "attr", name |-> "title", value |-> "12.5"] @@
    "<input alt='Enter your email here' />" :> [kind |-> "attr", name |-> "alt", value |-> "Enter your email here"] @@
    "<input alt='OK' />" :> [kind |-> "attr", name |-> "alt", value |-> "OK"] @@
    "<input alt='100%' />" :> [kind |-> "attr", name |-> "alt", value |-> "100%"] @@
    "<input alt='true' />" :> [kind |-> "attr", name |-> "alt", value |-> "true"] @@
    "<input alt='   ' />" :> [kind |-> "attr", name |-> "alt", value |-> "   "] @@
    "<input alt='12.5' />" :> [kind |-> "attr", name |-> "alt", value |-> "12.5"] @@
    "<input placeholder='Enter your email here' />" :> [kind |-> "attr", name |-> "placeholder", value |-> "Enter your email here"] @@
    "<input placeholder='OK' />" :> [kind |-> "attr", name |-> "placeholder", value |-> "OK"] @@
    "<input placeholder='100%' />" :> [kind |-> "attr", name |-> "placeholder", value |-> "100%"] @@
    "<input placeholder='true' />" :> [kind |-> "attr", name |-> "placeholder", value |-> "true"] @@
    "<input placeholder='   ' />" :> [kind |-> "attr", name |-> "placeholder", value |-> "   "] @@
    "<input placeholder='12.5' />" :> [kind |-> "attr", name |-> "placeholder", value |-> "12.5"] @@
    "<input aria-label='Enter your email here' />" :> [kind |-> "attr", name |-> "aria-label", value |-> "Enter your email here"] @@
    "<input aria-label='OK' />" :> [kind |-> "attr", name |-> "aria-label", value |-> "OK"] @@
    "<input aria-label='100%' />" :> [kind |-> "attr", name |-> "aria-label", value |-> "100%"] @@
    "<input aria-label='true' />" :> [kind |-> "attr", name |-> "aria-label", value |-> "true"] @@
    "<input aria-label='   ' />" :> [kind |-> "attr", name |-> "aria-label", value |-> "   "] @@
    "<input aria-label='12.5' />" :> [kind |-> "attr", name |-> "aria-label", value |-> "12.5"] @@
    "<input aria-description='Enter your email here' />" :> [kind |-> "attr", name |-> "aria-description", value |-> "Enter your email here"] @@
    "<input aria-description='OK' />" :> [kind |-> "attr", name |-> "aria-description", value |-> "OK"] @@
    "<input aria-description='100%' />" :> [kind |-> "attr", name |-> "aria-description", value |-> "100%"] @@
    "<input aria-description='true' />" :> [kind |-> "attr", name |-> "aria-description", value |-> "true"] @@
    "<input aria-description='   ' />" :> [kind |-> "attr", name |-> "aria-description", value |-> "   "] @@
    "<input aria-description='12.5' />" :> [kind |-> "attr", name |-> "aria-description", value |-> "12.5"] @@
    "<input label='Enter your email here' />" :> [kind |-> "attr", name |-> "label", value |-> "Enter your email here"] @@
    "<input label='OK' />" :> [kind |-> "attr", name |-> "label", value |-> "OK"] @@
    "<input label='100%' />" :> [kind |-> "attr", name |-> "label", value |-> "100%"] @@
    "<input label='true' />" :> [kind |-> "attr", name |-> "label", value |-> "true"] @@
    "<input label='   ' />" :> [kind |-> "attr", name |-> "label", value |-> "   "] @@
    "<input label='12.5' />" :> [kind |-> "attr", name |-> "label", value |-> "12.5"] @@
    "<input aria-placeholder='Enter your email here' />" :> [kind |-> "attr", name |-> "aria-placeholder", value |-> "Enter your email here"] @@
    "<input aria-placeholder='OK' />" :> [kind |-> "attr", name |-> "aria-placeholder", value |-> "OK"] @@
    "<input aria-placeholder='100%' />" :> [kind |-> "attr", name |-> "aria-placeholder", value |-> "100%"] @@
    "<input aria-placeholder='true' />" :> [kind |-> "attr", name |-> "aria-placeholder", value |-> "true"] @@
    "<input aria-placeholder='   ' />" :> [kind |-> "attr", name |-> "aria-placeholder", value |-> "   "] @@
    "<input aria-placeholder='12.5' />" :> [kind |-> "attr", name |-> "aria-placeholder", value |-> "12.5"] @@
    "<input aria-valuetext='Enter your email here' />" :> [kind |-> "attr", name |-> "aria-valuetext", value |-> "Enter your email here"] @@
    "<input aria-valuetext='OK' />" :> [kind |-> "attr", name |-> "aria-valuetext", value |-> "OK"] @@
    "<input aria-valuetext='100%' />" :> [kind |-> "attr", name |-> "aria-valuetext", value |-> "100%"] @@
    "<input aria-valuetext='true' />" :> [kind |-> "attr", name |-> "aria-valuetext", value |-> "true"] @@
    "<input aria-valuetext='   ' />" :> [kind |-> "attr", name |-> "aria-valuetext", value |-> "   "] @@
    "<input aria-valuetext='12.5' />" :> [kind |-> "attr", name |-> "aria-valuetext", value |-> "12.5"] @@
    "<input data-testid='Enter your email here' />" :> [kind |-> "attr", name |-> "data-testid", value |-> "Enter your email here"] @@
    "<input data-testid='OK' />" :> [kind |-> "attr", name |-> "data-testid", value |-> "OK"] @@
    "<input data-testid='100%' />" :> [kind |-> "attr", name |-> "data-testid", value |-> "100%"] @@
    "<input data-testid='true' />" :> [kind |-> "attr", name |-> "data-testid", value |-> "true"] @@
    "<input data-testid='   ' />" :> [kind |-> "attr", name |-> "data-testid", value |-> "   "] @@
    "<input data-testid='12.5' />" :> [kind |-> "attr", name |-> "data-testid", value |-> "12.5"] @@
    "<input href='Enter your email here' />" :> [kind |-> "attr", name |-> "href", value |-> "Enter your email here"] @@
    "<input href='OK' />" :> [kind |-> "attr", name |-> "href", value |-> "OK"] @@
    "<input href='100%' />" :> [kind |-> "attr", name |-> "href", value |-> "100%"] @@
    "<input href='true' />" :> [kind |-> "attr", name |-> "href", value |-> "true"] @@
    "<input href='   ' />" :> [kind |-> "attr", name |-> "href", value |-> "   "] @@
    "<input href='12.5' />" :> [kind |-> "attr", name |-> "href", value |-> "12.5"]


MarkupSources == DOMAIN MarkupTable

UsesJsx(source) == source \in {"S_APP", "S_NAV"} \cup MarkupSources \cup Documents

\* An AST is a sequence of nodes, the root first; a node names its children
\* by index, in the order `for (const key in node)` meets them.  Children
\* that neither the adapter nor a rule reacts to (identifiers, loc objects,
\* the literal arguments themselves) are left out.
Node(type, line, column, children) ==
    [type |-> type, line |-> line, column |-> column,
     endLine |-> line, endColumn |-> column + 1, children |-> children]

Program(children) == Node("Program", 1, 0, children)
Call(line, column, argType, argValue) ==
    [callee |-> "t", argType |-> argType, argValue |-> argValue]
        @@ Node("CallExpression", line, column, <<>>)
\* a call with the column its text ends at
CallTo(line, column, endColumn, argType, argValue) ==
    [endColumn |-> endColumn] @@ Call(line, column, argType, argValue)
\* a call with a second argument, a literal
WithSecond(call, argType, value) == [secondType |-> argType, secondValue |-> value] @@ call
JSXElement(line, column, children) == Node("JSXElement", line, column, children)
JSXText(line, column, value) == [value |-> value] @@ Node("JSXText", line, column, <<>>)
JSXAttribute(line, column, attrName, valueType, value, valueColumn, children) ==
    [attrName |-> attrName, valueType |-> valueType, value |-> value,
     valueColumn |-> valueColumn]
        @@ Node("JSXAttribute", line, column, children)

\* the two parsers name literals differently
StringLiteralType(parser) == IF parser = "typescript" THEN "Literal" ELSE "StringLiteral"
NumericLiteralType(parser) == IF parser = "typescript" THEN "Literal" ELSE "NumericLiteral"

\* <p>value</p>: the JSXText child starts after the opening tag; an empty
\* element has no child.  <input name='value' />: the attribute starts after
\* the tag name, its value after the '='.
MarkupTree(markup, parser) ==
    IF markup.kind = "text"
    THEN IF markup.value = "" THEN <<Program(<<2>>), JSXElement(1, 0, <<>>)>>
         ELSE <<Program(<<2>>), JSXElement(1, 0, <<3>>), JSXText(1, 3, markup.value)>>
    ELSE <<Program(<<2>>), JSXElement(1, 0, <<3>>),
           JSXAttribute(1, 7, Str(markup.name), StringLiteralType(parser), markup.value,
                        8 + Len(Utf16(markup.name)), <<>>)>>

Tree(source, parser) ==
    CASE source = "S_APP" ->
           <<Program(<<2, 3, 5>>),
             Call(1, 10, StringLiteralType(parser), Str(<<"common", "welcome">>)),
             JSXElement(2, 10, <<4>>),
             JSXText(2, 13, " Hello there "),
             JSXElement(3, 10, <<6>>),
             JSXAttribute(3, 17, Str("placeholder"), StringLiteralType(parser),
                          "Hello there", 29, <<>>)>>
      [] source = "S_NAV" ->
           <<Program(<<2, 3, 4, 5, 9, 10, 11>>),
             Call(1, 0, StringLiteralType(parser), Str(<<"common", "nav.title">>)),
             Call(2, 0, StringLiteralType(parser), Str(<<"common", "nav.title">>)),
             Call(3, 0, StringLiteralType(parser), Str(<<"constructor">>)),
             JSXElement(4, 10, <<6, 8>>),
             JSXAttribute(4, 13, Obj("JSXIdentifier"), "JSXExpressionContainer",
                          "", 25, <<7>>),
             Call(4, 26, StringLiteralType(parser), Str(<<"common", "menu">>)),
             JSXText(4, 43, " OK "),
             Call(5, 0, NumericLiteralType(parser), [num |-> 42]),
             WithSecond(Call(6, 0, StringLiteralType(parser), Str(<<"common", "late">>)),
                        StringLiteralType(parser), "{count, plural, one {1 item}}"),
             Call(7, 0, StringLiteralType(parser), Str(<<"welcome">>))>>
      [] source = "S_DRAFT" ->
           <<Program(<<2>>),
             Call(1, 0, StringLiteralType(parser), Str(<<"common", "extra">>))>>
      [] source = "" -> <<Program(<<>>)>>
      [] source = "D_MENU" ->
           <<Program(<<2>>), JSXElement(1, 0, <<3>>),
             CallTo(1, 4, 20, StringLiteralType(parser), Str(<<"common", "menu">>))>>
      [] source = "D_GREET" ->
           <<Program(<<2>>), JSXElement(1, 0, <<3>>),
             CallTo(1, 4, 17, StringLiteralType(parser), Str(<<"greeting">>))>>
      [] source = "D_BOTH" ->
           <<Program(<<2>>), JSXElement(1, 0, <<3, 4>>),
             CallTo(1, 4, 20, StringLiteralType(parser), Str(<<"common", "menu">>)),
             CallTo(1, 22, 35, StringLiteralType(parser), Str(<<"greeting">>))>>
      [] source = "D_OK" ->
           <<Program(<<2>>), JSXElement(1, 0, <<3>>),
             CallTo(1, 4, 23, StringLiteralType(parser), Str(<<"common", "welcome">>))>>
      [] OTHER -> MarkupTree(MarkupTable[source], parser)

\* parseCode: the parser is chosen by the file extension; an unparsable
\* text, or JSX in a file whose extension does not enable JSX, throws.
parseCode(filePath, source) ==
    LET isTypeScript == EndsWith(filePath, ".ts") \/ EndsWith(filePath, ".tsx")
        useParser == IF isTypeScript THEN "typescript" ELSE "babel"
        jsx == EndsWith(filePath, ".tsx") \/ EndsWith(filePath, ".jsx")
    IN  IF source = "S_BAD" \/ (UsesJsx(source) /\ ~jsx)
        THEN [ok |-> FALSE]
        ELSE [ok |-> TRUE, ast |-> Tree(source, useParser)]

\* ---------------------------------------------------------------- adapter
Undefined == "undefined"

\* I18nextAdapter.extractFromTCall: [namespace, ...keyParts] = split(':')
extractFromTCall(node) ==
    IF node.argType \notin {"StringLiteral", "Literal"} THEN [kind |-> "none"]
    ELSE IF "str" \notin DOMAIN node.argValue THEN [kind |-> "throw"]
    ELSE LET parts == node.argValue.str
             namespace == Head(parts)
             keyParts == Tail(parts)
         IN  [kind |-> "call",
              keyName |-> IF Len(keyParts) > 0 THEN keyParts ELSE <<namespace>>,
              namespace |-> IF Len(keyParts) > 0 THEN namespace ELSE Undefined,
              defaultValue |-> IF "secondType" \in DOMAIN node
                                  /\ node.secondType = "StringLiteral"
                               THEN node.secondValue ELSE Undefined]

\* I18nextAdapter.extractTranslationCalls
extractTranslationCalls(node) ==
    IF node.type = "CallExpression" /\ node.callee = "t"
    THEN extractFromTCall(node)
    ELSE [kind |-> "none"]

\* --------------------------------------------------------- key generation
Min(a, b) == IF a < b THEN a ELSE b

\* String.prototype.substring(0, n) for n >= 0
Substring0(codes, n) == SubSeq(codes, 1, Min(n, Len(codes)))

\* String.prototype.toLowerCase on the letters A-Z
ToLowerCase(codes) ==
    [i \in 1..Len(codes) |-> IF codes[i] \in 65..90 THEN codes[i] + 32 ELSE codes[i]]

\* .replace(/[^a-z0-9]/g, ch)
ReplaceOthers(codes, ch) ==
    [i \in 1..Len(codes) |->
        IF codes[i] \in 97..122 \/ codes[i] \in 48..57 THEN codes[i] ELSE ch]

\* .replace(/ch+/g, ch): a run of ch becomes one ch
RECURSIVE Collapse(_, _)
Collapse(codes, ch) ==
    IF Len(codes) < 2 THEN codes
    ELSE IF codes[1] = ch /\ codes[2] = ch THEN Collapse(Tail(codes), ch)
    ELSE <<codes[1]>> \o Collapse(Tail(codes), ch)

\* .replace(/^ch|ch$/g, '')
StripLast(codes, ch) ==
    IF codes # <<>> /\ codes[Len(codes)] = ch THEN SubSeq(codes, 1, Len(codes) - 1) ELSE codes

StripEnds(codes, ch) ==
    StripLast(IF codes # <<>> /\ codes[1] = ch THEN Tail(codes) ELSE codes, ch)

\* toLowerCase, then the three replacements, with separator ch
Slug(codes, ch) == StripEnds(Collapse(ReplaceOthers(ToLowerCase(codes), ch), ch), ch)

\* filePath.split('/').pop()
RECURSIVE LastSegment(_)
LastSegment(codes) ==
    IF \E i \in 1..Len(codes) : codes[i] = 47
    THEN LastSegment(Tail(codes))
    ELSE codes

\* .replace(/\.(ts|tsx|js|jsx)$/, '')
StripSourceExt(codes) ==
    IF \E e \in {".tsx", ".jsx"} : IsSuffix(codes, Utf16(e))
    THEN SubSeq(codes, 1, Len(codes) - 4)
    ELSE IF \E e \in {".ts", ".js"} : IsSuffix(codes, Utf16(e))
    THEN SubSeq(codes, 1, Len(codes) - 3)
    ELSE codes

\* 'unknown'
Unknown == <<117, 110, 107, 110, 111, 119, 110>>

\* the file name without its extension, || 'unknown'
FileStem(filePath) ==
    IF StripSourceExt(LastSegment(Utf16(filePath))) = <<>> THEN Unknown
    ELSE StripSourceExt(LastSegment(Utf16(filePath)))

\* config.keygen?.maxLen || 60
DefaultMaxLen == 60
MaxLenOr60(cfg) == IF cfg.keygen.maxLen = 0 THEN DefaultMaxLen ELSE cfg.keygen.maxLen

\* generateKeyFromText of the rules module: `${fileName}.${sanitized}` cut
\* to maxLen || 60
generateKeyFromText(text, filePath, cfg) ==
    Substring0(FileStem(filePath) \o <<46>> \o Slug(Utf16(text), 45), MaxLenOr60(cfg))

\* the digits of toString(36) as characters 0-9a-z
Base36(digits) ==
    [i \in 1..Len(digits) |-> IF digits[i] < 10 THEN 48 + digits[i] ELSE 87 + digits[i]]

\* I18nextAdapter.generateKey and its three strategies; slugify separates
\* with '-'
I18nextFilePathKey(text, filePath, maxLen) ==
    Substring0(FileStem(filePath) \o <<46>> \o Slug(Utf16(text), 45), maxLen)

I18nextNamespaceKey(text, filePath, maxLen) ==
    Substring0((IF IsInfix(Utf16(filePath), <<47, 99, 111, 109, 112, 111, 110, 101, 110, 116, 115, 47>>)
                THEN <<99, 111, 109, 109, 111, 110>> ELSE <<97, 112, 112>>)
                   \o <<46>> \o Slug(Utf16(text), 45),
               maxLen)

I18nextHashKey(text, filePath, maxLen) ==
    Substring0(<<107, 101, 121, 95>> \o Base36(simpleHash(Utf16(text) \o Utf16(filePath))),
               maxLen)

I18nextGenerateKey(text, filePath, cfg) ==
    CASE cfg.keygen.strategy = "filePathSlug" ->
           I18nextFilePathKey(text, filePath, cfg.keygen.maxLen)
      [] cfg.keygen.strategy = "namespaceSlug" ->
           I18nextNamespaceKey(text, filePath, cfg.keygen.maxLen)
      [] cfg.keygen.strategy = "hash" ->
           I18nextHashKey(text, filePath, cfg.keygen.maxLen)
      [] OTHER -> I18nextFilePathKey(text, filePath, cfg.keygen.maxLen)

\* path.basename(p, path.extname(p)): the last segment without what follows
\* its last '.', when that '.' is not its first character
LastDot(codes) ==
    IF \E i \in 2..Len(codes) : codes[i] = 46
    THEN CHOOSE i \in 2..Len(codes) :
            codes[i] = 46 /\ \A k \in (i + 1)..Len(codes) : codes[k] # 46
    ELSE 0

Basename(codes) ==
    IF LastDot(LastSegment(codes)) = 0 THEN LastSegment(codes)
    ELSE SubSeq(LastSegment(codes), 1, LastDot(LastSegment(codes)) - 1)

\* relativePath.split(path.sep)
RECURSIVE SplitPath(_)
SplitPath(codes) ==
    IF First(codes, 47, 1) = 0 THEN <<codes>>
    ELSE <<SubSeq(codes, 1, First(codes, 47, 1) - 1)>>
             \o SplitPath(SubSeq(codes, First(codes, 47, 1) + 1, Len(codes)))

\* the parts other than 'src', without extension, slugified, the empty ones
\* dropped, joined with '.'
RECURSIVE NamespaceOf(_)
NamespacePart(part, rest) ==
    IF part = <<115, 114, 99>> \/ Slug(Basename(part), 46) = <<>> THEN rest
    ELSE IF rest = <<>> THEN Slug(Basename(part), 46)
    ELSE Slug(Basename(part), 46) \o <<46>> \o rest

NamespaceOf(parts) ==
    IF parts = <<>> THEN <<>> ELSE NamespacePart(Head(parts), NamespaceOf(Tail(parts)))

\* FormatJSAdapter.generateKey and its strategies; slugify separates with '.'
FormatJSFilePathKey(text, filePath, maxLen) ==
    Substring0(Basename(Utf16(filePath)) \o <<46>> \o Slug(Utf16(text), 46), maxLen)

FormatJSNamespaceKey(text, filePath, maxLen) ==
    Substring0(NamespaceOf(SplitPath(Utf16(filePath))) \o <<46>> \o Slug(Utf16(text), 46),
               maxLen)

FormatJSHashKey(text, maxLen) ==
    Substring0(<<109, 115, 103, 95>> \o Base36(simpleHash(Utf16(text))), maxLen)

FormatJSGenerateKey(text, filePath, cfg) ==
    CASE cfg.keygen.strategy = "filePathSlug" ->
           FormatJSFilePathKey(text, filePath, cfg.keygen.maxLen)
      [] cfg.keygen.strategy = "namespaceSlug" ->
           FormatJSNamespaceKey(text, filePath, cfg.keygen.maxLen)
      [] cfg.keygen.strategy = "hash" -> FormatJSHashKey(text, cfg.keygen.maxLen)
      [] OTHER -> Substring0(Slug(Utf16(text), 46), cfg.keygen.maxLen)

\* ------------------------------------------------------------------ rules
DEFAULT_RULES == <<"I18N001", "I18N101", "I18N102", "I18N201">>

Digits == 48..57
Punctuation == {45, 95, 46, 44, 59, 58, 33, 63, 40, 41, 91, 93, 123, 125}
nonTranslatable == {"id", "className", "style", "key", "ref", "true", "false",
                    "null", "undefined", "onClick", "onChange", "onSubmit"}

Translatable(text, codes) ==
    /\ ~(Len(codes) < 3)
    /\ \E i \in 1..Len(codes) : ~IsSpace(codes[i])
    /\ ~(\A i \in 1..Len(codes) :
            codes[i] \in Digits \/ IsSpace(codes[i]) \/ codes[i] \in Punctuation)
    /\ text \notin nonTranslatable

shouldBeTranslated(text) == Translatable(text, Utf16(text))

translatableAttrs == {"title", "alt", "placeholder", "aria-label", "aria-description",
                      "label", "aria-placeholder", "aria-valuetext"}

\* isTranslatableAttribute: "throw" when attrName is no string, because
\* attrName.startsWith is then no function
isTranslatableAttribute(attrName) ==
    IF "str" \notin DOMAIN attrName THEN "throw"
    ELSE IF attrName.str \in translatableAttrs \/ StartsWith(attrName.str, "data-")
    THEN "yes" ELSE "no"

\* hardCodedStringRule.check: the findings it reports, and whether it throws
HardCodedFinding(message, node, context, column, endColumn, text) ==
    [ruleId |-> "I18N001", severity |-> "warning", message |-> message,
     file |-> context.file, line |-> node.line, column |-> column,
     endLine |-> node.endLine, endColumn |-> endColumn,
     source |-> text,
     suggestion |-> [type |-> "externalize",
                     keyName |-> generateKeyFromText(text, context.file, context.config)]]

\* a JSXText node with its trimmed text
CheckText(node, context, text) ==
    [thrown |-> FALSE,
     reports |-> IF text # "" /\ shouldBeTranslated(text)
                 THEN <<HardCodedFinding(<<"Hard-coded string found", text>>, node, context,
                                         node.column, node.endColumn, text)>>
                 ELSE <<>>]

\* a JSXAttribute node with the outcome of isTranslatableAttribute
CheckAttribute(node, context, translatable) ==
    IF translatable = "throw" THEN [thrown |-> TRUE, reports |-> <<>>]
    ELSE [thrown |-> FALSE,
          reports |-> IF /\ translatable = "yes"
                         /\ node.valueType = "StringLiteral"
                         /\ shouldBeTranslated(node.value)
                      THEN <<HardCodedFinding(<<"Hard-coded string in attribute",
                                                node.attrName.str, node.value>>,
                                              node, context, node.valueColumn,
                                              node.valueColumn + 1, node.value)>>
                      ELSE <<>>]

hardCodedStringRule(node, context) ==
    IF node.type = "JSXText" THEN CheckText(node, context, Trim(node.value))
    ELSE IF node.type = "JSXAttribute"
    THEN CheckAttribute(node, context, isTranslatableAttribute(node.attrName))
    ELSE [thrown |-> FALSE, reports |-> <<>>]

\* variant: every rule's check runs the hard-coded-text check
RuleCheck_everyRuleReports(ruleId, node, context) == hardCodedStringRule(node, context)

\* rule.check for a rule id; the rules other than I18N001 have empty bodies
RuleCheck(ruleId, node, context) ==
    IF ruleId = "I18N001" THEN hardCodedStringRule(node, context)
    ELSE [thrown |-> FALSE, reports |-> <<>>]

\* ---------------------------------------------------------------- Scanner
\* `key in catalog`
keyExistsInCatalog(key, catalog) == key \in Keys(catalog) \/ key \in ObjectPrototypeKeys

getCatalogPath(locale, namespace) ==
    CatalogFile(locale, IF namespace \in {Undefined, ""} THEN "common" ELSE namespace)

\* `${call.namespace}:${call.keyName}` when the namespace is truthy
FullKey(call) ==
    IF call.namespace \in {Undefined, ""} THEN call.keyName
    ELSE <<call.namespace>> \o call.keyName

\* The scanner state one traversal works on: the findings array and the
\* usage set, with a record of what happened (call sites met, rule checks
\* run, rule failures logged) and whether an error is propagating.
MissingKeyFinding(fullKey, locale, node, ctx) ==
    [ruleId |-> "I18N002", severity |-> "error",
     message |-> <<"Missing translation key", fullKey, locale>>,
     file |-> ctx.file, line |-> node.line, column |-> node.column,
     endLine |-> node.endLine, endColumn |-> node.endColumn,
     source |-> fullKey,
     suggestion |-> [type |-> "add-key", keyName |-> fullKey,
                     catalogPath |-> getCatalogPath(locale, ctx.namespace)]]

RECURSIVE CheckLocales(_, _, _, _, _)
CheckLocales(fullKey, node, ctx, i, findings) ==
    IF i > Len(ctx.locales) THEN findings
    ELSE LET locale == ctx.locales[i]
             next == IF locale \notin DOMAIN ctx.catalogs.byLocale THEN findings
                     ELSE IF ~keyExistsInCatalog(fullKey, ctx.catalogs.byLocale[locale])
                     THEN Append(findings,
                                 WithId(MissingKeyFinding(fullKey, locale, node, ctx)))
                     ELSE findings
         IN  CheckLocales(fullKey, node, ctx, i + 1, next)

checkTranslationCall(call, node, ctx, st) ==
    IF ~ctx.catalogs.loaded THEN st
    ELSE [st EXCEPT !.usedKeys = @ \cup {FullKey(call)},
                    !.findings = CheckLocales(FullKey(call), node,
                                     [namespace |-> call.namespace] @@ ctx, 1, @)]

\* context.report for each finding a rule reports
Reported(reports) == [k \in 1..Len(reports) |-> WithId(reports[k])]

\* one turn of the rule loop: the rule's reports are pushed; what it throws
\* is caught and logged
AfterRule(rule, n, ctx, st, out) ==
    [st EXCEPT !.findings = @ \o Reported(out.reports),
               !.checked = @ \cup {<<ctx.file, n, rule>>},
               !.log = IF out.thrown
                       THEN @ \cup {[kind |-> "rule", file |-> ctx.file,
                                     rule |-> rule, node |-> n]}
                       ELSE @]

\* variant: a rule's error leaves the loop and the traversal
RECURSIVE ApplyRules_propagating(_, _, _, _, _)
ApplyRules_propagating(node, n, ctx, i, st) ==
    IF i > Len(DEFAULT_RULES) \/ st.thrown THEN st
    ELSE ApplyRules_propagating(node, n, ctx, i + 1,
             [AfterRule(DEFAULT_RULES[i], n, ctx, st,
                        RuleCheck(DEFAULT_RULES[i], node, ctx))
                 EXCEPT !.thrown = RuleCheck(DEFAULT_RULES[i], node, ctx).thrown])

\* for (const rule of DEFAULT_RULES) try { rule.check } catch { warn }
RECURSIVE ApplyRules(_, _, _, _, _)
RulesFrom(node, n, ctx, i, next) ==
    \* a rule's error never leaves the loop
    IF next.thrown THEN next ELSE ApplyRules(node, n, ctx, i, next)

ApplyRules(node, n, ctx, i, st) ==
    IF i > Len(DEFAULT_RULES) THEN st
    ELSE RulesFrom(node, n, ctx, i + 1,
                   AfterRule(DEFAULT_RULES[i], n, ctx, st,
                             RuleCheck(DEFAULT_RULES[i], node, ctx)))

\* traverseAST: the adapter's extraction (an error it throws propagates),
\* the rules, then the children in order.
RECURSIVE traverseAST(_, _, _, _)
RECURSIVE TraverseChildren(_, _, _, _, _)
Site(ctx, node, call) ==
    [file |-> ctx.file, line |-> node.line, column |-> node.column, key |-> FullKey(call),
     message |-> call.defaultValue]

\* the child slots, once the rules have run
Descend(ast, n, ctx, st) ==
    IF st.thrown THEN st ELSE TraverseChildren(ast, ast[n].children, 1, ctx, st)

\* the node with what the adapter extracted from it
Visit(ast, n, ctx, st, call) ==
    IF call.kind = "throw" THEN [st EXCEPT !.thrown = TRUE]
    ELSE Descend(ast, n, ctx,
                 ApplyRules(ast[n], n, ctx, 1,
                            IF call.kind = "call"
                            THEN checkTranslationCall(call, ast[n], ctx,
                                     [st EXCEPT !.sites = @ \cup {Site(ctx, ast[n], call)}])
                            ELSE st))

traverseAST(ast, n, ctx, st) ==
    Visit(ast, n, ctx, st,
          IF ctx.adapter /\ ctx.catalogs.loaded
          THEN extractTranslationCalls(ast[n])
          ELSE [kind |-> "none"])

ChildrenFrom(ast, children, i, ctx, next) ==
    IF next.thrown THEN next ELSE TraverseChildren(ast, children, i, ctx, next)

TraverseChildren(ast, children, i, ctx, st) ==
    IF i > Len(children) THEN st
    ELSE ChildrenFrom(ast, children, i + 1, ctx, traverseAST(ast, children[i], ctx, st))

\* generateSummary: the findings tallied by rule id
Count(findings, ruleIds) ==
    Cardinality({i \in 1..Len(findings) : findings[i].ruleId \in ruleIds})

generateSummary(findings, count) ==
    [hardCoded |-> Count(findings, {"I18N001"}),
     missing |-> Count(findings, {"I18N002", "I18N101"}),
     unused |-> Count(findings, {"I18N003", "I18N102"}),
     icuErrors |-> Count(findings, {"I18N201", "I18N202"}),
     duplicates |-> 0,
     totalFiles |-> count]

generateCoverageReport ==
    [byLocale |-> <<>>,
     overall |-> [totalKeys |-> 0, translatedKeys |-> 0, percentage |-> 0]]

extractNamespaceFromKey(key) == IF Len(key) > 1 THEN key[1] ELSE Undefined

\* checkUnusedKeys: the reference catalog's keys, in its own order
RECURSIVE UnusedFrom(_, _, _, _)
UnusedFrom(referenceCatalog, i, cfg, used) ==
    IF i > Len(referenceCatalog) THEN <<>>
    ELSE LET key == referenceCatalog[i].k
             finding == [ruleId |-> "I18N003", severity |-> "warning",
                         message |-> <<"Unused translation key", key>>,
                         file |-> getCatalogPath(cfg.defaultLocale,
                                                 extractNamespaceFromKey(key)),
                         line |-> 0, column |-> 0, source |-> key,
                         suggestion |-> [type |-> "remove-key", keyName |-> key]]
         IN  (IF key \notin used THEN <<WithId(finding)>> ELSE <<>>)
                 \o UnusedFrom(referenceCatalog, i + 1, cfg, used)

\* variant: the reference catalog is the last configured locale's
checkUnusedKeys_lastLocale(cats, cfg, used) ==
    IF ~cats.loaded THEN <<>>
    ELSE UnusedFrom(cats.byLocale[cfg.locales[Len(cfg.locales)]], 1, cfg, used)

checkUnusedKeys(cats, cfg, used) ==
    IF ~cats.loaded THEN <<>>
    ELSE IF cfg.defaultLocale \notin DOMAIN cats.byLocale THEN <<>>
    ELSE UnusedFrom(cats.byLocale[cfg.defaultLocale], 1, cfg, used)

\* ------------------------------------------------------------ environment
Paths == <<"src/App.test.tsx", "src/App.tsx", "src/Nav.jsx">>
PathSet == {Paths[i] : i \in 1..Len(Paths)}
NoFile == "ENOENT"

\* config.ignore: '**/*.test.*'
IgnoreInfix == ".test."

\* getFilesToScan: globby(src, {ignore}) lists the files that exist and are
\* not ignored; the filter keeps the recognised extensions outside
\* node_modules.
Globbed(files, f) == files[f] # NoFile /\ ~Includes(f, IgnoreInfix)

Kept(f) ==
    /\ \E ext \in {".ts", ".tsx", ".js", ".jsx"} : EndsWith(f, ext)
    /\ ~Includes(f, "node_modules")

RECURSIVE Select(_, _)
Select(paths, files) ==
    IF paths = <<>> THEN <<>>
    ELSE (IF Globbed(files, Head(paths)) /\ Kept(Head(paths)) THEN <<Head(paths)>> ELSE <<>>)
             \o Select(Tail(paths), files)

getFilesToScan(files) == Select(Paths, files)

\* What scanSingleFile is called with: a path, and the content argument
\* (Undefined when it is left out).
SingleInputs ==
    {<<"src/App.tsx", Undefined>>, <<"src/Nav.jsx", Undefined>>,
     <<"src/App.tsx", "S_DRAFT">>, <<"src/App.tsx", "">>}

\* ------------------------------------------------------------------ state
VARIABLES
    mode,        \* "seq": invocations run one after the other; "conc": they overlap
    config,      \* this.config
    adapter,     \* this.adapter is set
    findingsRef, \* this.findings: which array it refers to
    arrays,      \* the findings arrays, one per invocation (0: the constructor's)
    fileCount,   \* this.fileCount
    catalogs,    \* this.catalogs
    usedKeys,    \* this.usedKeys
    fs,          \* source files on disk: path -> source text or NoFile
    disk,        \* catalog files on disk: locale -> namespace -> document
    loaderUp,    \* FALSE: the adapter's loadCatalogs promise rejects
    envChanges,  \* number of changes made to fs, disk and loaderUp
    calls,       \* the invocations: position, arguments, locals, result
    fnCall       \* a call of a function outside the Scanner: arguments, outcome

vars == <<mode, config, adapter, findingsRef, arrays, fileCount, catalogs, usedKeys,
          fs, disk, loaderUp, envChanges, calls, fnCall>>

scannerVars == <<findingsRef, arrays, fileCount, catalogs, usedKeys>>
envVars == <<fs, disk, loaderUp, envChanges>>

CallIds == 1..MaxCalls
NotLoaded == [loaded |-> FALSE]

IdleCall ==
    [kind |-> "none", pc |-> "idle", filePath |-> "", content |-> Undefined,
     queue |-> <<>>, current |-> "",
     summary |-> generateSummary(<<>>, 0), findings |-> 0,
     coverage |-> generateCoverageReport,
     \* what the invocation itself did, recorded for the properties
     epoch |-> 0, endEpoch |-> 0, listed |-> <<>>, files |-> <<>>, texts |-> {},
     parsed |-> {}, sites |-> {}, checked |-> {}, log |-> {}, own |-> <<>>,
     cats |-> NotLoaded, store |-> NotLoaded, usage |-> {}]

\* defaultConfig.keygen
Keygen == [strategy |-> "filePathSlug", maxLen |-> DefaultMaxLen]

Configs == {[locales |-> <<"en", "fr">>, defaultLocale |-> "en", keygen |-> Keygen]}

\* Configs the constructor is handed although defaultLocale is no member of
\* locales, or locales is empty
InvalidConfigs == {[locales |-> <<"fr">>, defaultLocale |-> "en", keygen |-> Keygen],
                   [locales |-> <<>>, defaultLocale |-> "en", keygen |-> Keygen]}

InitWith(configs) ==
    /\ config \in configs
    /\ adapter \in BOOLEAN
    /\ findingsRef = 0
    /\ arrays = [a \in 0..MaxCalls |-> <<>>]
    /\ fileCount = 0
    /\ catalogs = NotLoaded
    /\ usedKeys = {}
    /\ fs = [f \in PathSet |-> IF f = "src/Nav.jsx" THEN "S_NAV" ELSE "S_APP"]
    /\ disk = [l \in Locales |->
                 [n \in {"common"} |-> IF l = "en" THEN Doc(DOC_FULL) ELSE Doc(DOC_PART)]]
    /\ loaderUp = TRUE
    /\ envChanges = 0
    /\ calls = [c \in CallIds |-> IdleCall]

InitBase == InitWith(Configs)

NoFnCall == [fn |-> "none"]

Init == InitBase /\ mode = "seq" /\ fnCall = NoFnCall
InitConc == InitBase /\ mode = "conc" /\ fnCall = NoFnCall
InitAnyConfig == InitWith(Configs \cup InvalidConfigs) /\ mode = "seq" /\ fnCall = NoFnCall

Active(c) == calls[c].pc \notin {"idle", "done"}
Done(c) == calls[c].pc = "done"

CanStart(c) ==
    /\ calls[c].pc = "idle"
    /\ IF c = 1 THEN TRUE ELSE calls[c - 1].pc # "idle"
    /\ mode = "seq" => \A d \in CallIds : ~Active(d)

Truthy(content) == content \notin {Undefined, ""}

\* ------------------------------------------------------- scanFileContent
\* The effect of scanFileContent(file, source) on the scanner state sc =
\* [findings, usedKeys, fileCount, catalogs] and on the invocation's record.
Recorded(call, file, source, sc, parse, st1) ==
    [sc |-> [sc EXCEPT !.findings = st1.findings,
                       !.usedKeys = st1.usedKeys,
                       !.fileCount = IF parse.ok THEN @ + 1 ELSE @],
     call |-> [call EXCEPT !.pc = "scanned",
                           !.files = Append(@, file),
                           !.texts = @ \cup {<<file, source>>},
                           !.store = sc.catalogs,
                           !.parsed = IF parse.ok THEN @ \cup {file} ELSE @,
                           !.sites = @ \cup st1.sites,
                           !.checked = @ \cup st1.checked,
                           !.log = @ \cup st1.log \cup
                                   (IF ~parse.ok \/ st1.thrown
                                    THEN {[kind |-> "content", file |-> file]} ELSE {}),
                           !.own = @ \o SubSeq(st1.findings, Len(sc.findings) + 1,
                                               Len(st1.findings))]]

\* the traversal's start, and the context the rules and the adapter see
Traversal(sc) ==
    [findings |-> sc.findings, usedKeys |-> sc.usedKeys, sites |-> {},
     checked |-> {}, log |-> {}, thrown |-> FALSE]

RuleContext(file, sc) ==
    [file |-> file, adapter |-> adapter, catalogs |-> sc.catalogs,
     locales |-> config.locales, config |-> config]

Parsed(call, file, source, sc, parse) ==
    Recorded(call, file, source, sc, parse,
             IF parse.ok
             THEN traverseAST(parse.ast, 1, RuleContext(file, sc), Traversal(sc))
             ELSE Traversal(sc))

scanFileContent(call, file, source, sc) ==
    Parsed(call, file, source, sc, parseCode(file, source))

\* variant: a failed read is not caught and ends the loop over the files
scanFile_aborting(call, file, sc) ==
    IF fs[file] = NoFile
    THEN [sc |-> sc,
          call |-> [call EXCEPT !.pc = "scanned", !.files = Append(@, file),
                                !.texts = @ \cup {<<file, NoFile>>},
                                !.queue = <<file>>]]
    ELSE scanFileContent(call, file, fs[file], sc)

\* scanFile: readFile, then scanFileContent; a failed read is logged
scanFile(call, file, sc) ==
    IF fs[file] = NoFile
    THEN [sc |-> sc,
          call |-> [call EXCEPT !.pc = "scanned", !.files = Append(@, file),
                                !.texts = @ \cup {<<file, NoFile>>},
                                !.log = @ \cup {[kind |-> "file", file |-> file]}]]
    ELSE scanFileContent(call, file, fs[file], sc)

\* generateSummary over the findings, the unused-key findings included
Summarised(call, sc, unused) ==
    [sc |-> [sc EXCEPT !.findings = @ \o unused],
     call |-> [call EXCEPT !.pc = "coverage",
                           !.summary = generateSummary(sc.findings \o unused, sc.fileCount),
                           !.own = @ \o unused,
                           !.store = sc.catalogs,
                           !.usage = sc.usedKeys]]

\* variant: scanSingleFile runs checkUnusedKeys too
Finish_reconcilingAlways(call, sc) ==
    Summarised(call, sc,
               IF adapter /\ sc.catalogs.loaded
               THEN checkUnusedKeys(sc.catalogs, config, sc.usedKeys)
               ELSE <<>>)

\* The end of both entry points: scan() first runs checkUnusedKeys when an
\* adapter and catalogs are there; then generateSummary, and the
\* invocation waits for generateCoverageReport.
Finish(call, sc) ==
    Summarised(call, sc,
               IF call.kind = "scan" /\ adapter /\ sc.catalogs.loaded
               THEN checkUnusedKeys(sc.catalogs, config, sc.usedKeys)
               ELSE <<>>)

\* the scanner state as a record, and its write-back
Scanner == [findings |-> arrays[findingsRef], usedKeys |-> usedKeys,
            fileCount |-> fileCount, catalogs |-> catalogs]

Store(c, out) ==
    /\ arrays' = [arrays EXCEPT ![findingsRef] = out.sc.findings]
    /\ usedKeys' = out.sc.usedKeys
    /\ fileCount' = out.sc.fileCount
    /\ catalogs' = out.sc.catalogs
    /\ calls' = [calls EXCEPT ![c] = out.call]
    /\ UNCHANGED findingsRef

\* ---------------------------------------------------------------- actions
\* After the catalogs step: scan() waits for getFilesToScan;
\* scanSingleFile scans the supplied content at once when it is truthy and
\* waits for readFile otherwise.
AfterLoad(call, sc) ==
    IF call.kind = "scan" THEN [sc |-> sc, call |-> [call EXCEPT !.pc = "glob"]]
    ELSE IF Truthy(call.content)
    THEN scanFileContent(call, call.filePath, call.content, sc)
    ELSE [sc |-> sc, call |-> [call EXCEPT !.pc = "read", !.current = call.filePath]]

\* the invocation takes a new findings array and runs up to its first await
Enter(c, out) ==
    /\ findingsRef' = c
    /\ arrays' = [arrays EXCEPT ![c] = out.sc.findings]
    /\ usedKeys' = out.sc.usedKeys
    /\ fileCount' = out.sc.fileCount
    /\ catalogs' = out.sc.catalogs
    /\ calls' = [calls EXCEPT ![c] = out.call]
    /\ UNCHANGED <<mode, config, adapter, fnCall, envVars>>

ToLoad(call, sc) ==
    IF adapter THEN [sc |-> sc, call |-> [call EXCEPT !.pc = "load"]]
    ELSE AfterLoad(call, sc)

\* variant: the usage set is not cleared
Begin_keepingUsage(c, call) ==
    Enter(c, ToLoad(call, [findings |-> <<>>, usedKeys |-> usedKeys, fileCount |-> 0,
                           catalogs |-> catalogs]))

\* The first lines of both entry points: a new findings array, the counter
\* and the usage set reset; with an adapter the invocation then waits for
\* loadCatalogs.
Begin(c, call) ==
    Enter(c, ToLoad(call, [findings |-> <<>>, usedKeys |-> {}, fileCount |-> 0,
                           catalogs |-> catalogs]))

StartScan(c) ==
    /\ CanStart(c)
    /\ Begin(c, [IdleCall EXCEPT !.kind = "scan", !.epoch = envChanges])

StartSingle(c, filePath, content) ==
    /\ CanStart(c)
    /\ Begin(c, [IdleCall EXCEPT !.kind = "single", !.filePath = filePath,
                                 !.content = content, !.epoch = envChanges])

\* await this.adapter.loadCatalogs(this.config) settles
Loaded(c, cats) ==
    Store(c, AfterLoad([calls[c] EXCEPT
                           !.cats = IF loaderUp THEN cats ELSE NotLoaded,
                           !.log = @ \cup (IF loaderUp THEN LoadWarnings(config, disk)
                                           ELSE {[kind |-> "load", file |-> ""]})],
                       [Scanner EXCEPT !.catalogs = cats]))

LoadDone(c) ==
    /\ calls[c].pc = "load"
    /\ Loaded(c, IF loaderUp
                 THEN [loaded |-> TRUE, byLocale |-> loadCatalogs(config, disk)]
                 ELSE catalogs)
    /\ UNCHANGED <<mode, config, adapter, fnCall, envVars>>

\* await this.getFilesToScan() settles
Listed(c, queue) ==
    IF queue = <<>>
    THEN Store(c, Finish(calls[c], Scanner))
    ELSE /\ calls' = [calls EXCEPT ![c].pc = "read", ![c].queue = queue,
                                   ![c].listed = queue,
                                   ![c].current = Head(queue)]
         /\ UNCHANGED scannerVars

GlobDone(c) ==
    /\ calls[c].pc = "glob"
    /\ Listed(c, getFilesToScan(fs))
    /\ UNCHANGED <<mode, config, adapter, fnCall, envVars>>

\* await readFile(filePath) settles, and scanFile runs to its end
ReadDone(c) ==
    /\ calls[c].pc = "read"
    /\ Store(c, scanFile(calls[c], calls[c].current, Scanner))
    /\ UNCHANGED <<mode, config, adapter, fnCall, envVars>>

\* variant: scan() starts a new findings array for every file
AfterFile_resetting(c) ==
    /\ calls[c].pc = "scanned"
    /\ IF calls[c].kind = "scan" /\ Len(calls[c].queue) > 1
       THEN /\ calls' = [calls EXCEPT ![c].pc = "read", ![c].queue = Tail(@),
                                      ![c].current = calls[c].queue[2]]
            /\ arrays' = [arrays EXCEPT ![findingsRef] = <<>>]
            /\ UNCHANGED <<findingsRef, fileCount, catalogs, usedKeys>>
       ELSE Store(c, Finish([calls[c] EXCEPT !.queue = <<>>], Scanner))
    /\ UNCHANGED <<mode, config, adapter, fnCall, envVars>>

\* variant: scan() leaves the loop after the first file
AfterFile_leavingEarly(c) ==
    /\ calls[c].pc = "scanned"
    /\ Store(c, Finish([calls[c] EXCEPT !.queue = <<>>], Scanner))
    /\ UNCHANGED <<mode, config, adapter, fnCall, envVars>>

\* the entry point resumes after a file: the next file, or the end
AfterFile(c) ==
    /\ calls[c].pc = "scanned"
    /\ IF calls[c].kind = "scan" /\ Len(calls[c].queue) > 1
       THEN /\ calls' = [calls EXCEPT ![c].pc = "read", ![c].queue = Tail(@),
                                      ![c].current = calls[c].queue[2]]
            /\ UNCHANGED scannerVars
       ELSE Store(c, Finish([calls[c] EXCEPT !.queue = <<>>], Scanner))
    /\ UNCHANGED <<mode, config, adapter, fnCall, envVars>>

\* await this.generateCoverageReport() settles: return {summary, findings, coverage}
Return(c) ==
    /\ calls[c].pc = "coverage"
    /\ calls' = [calls EXCEPT ![c].pc = "done", ![c].findings = findingsRef,
                              ![c].coverage = generateCoverageReport,
                              ![c].endEpoch = envChanges]
    /\ UNCHANGED <<mode, config, adapter, fnCall, scannerVars, envVars>>

\* The environment: source files and catalog files change on disk, and the
\* catalog loader starts or stops failing.  Edits are made between
\* invocations; a file can be removed at any moment, also under a scan.
Quiet == \A c \in CallIds : ~Active(c)

EnvStep ==
    /\ envChanges < MaxEnvChanges
    /\ \E c \in CallIds : ~Done(c)
    /\ envChanges' = envChanges + 1
    /\ UNCHANGED <<mode, config, adapter, fnCall, scannerVars, calls>>

WriteFile(f, source) ==
    /\ Quiet
    /\ fs[f] # source
    /\ fs' = [fs EXCEPT ![f] = source]
    /\ EnvStep
    /\ UNCHANGED <<disk, loaderUp>>

RemoveFile(f) ==
    /\ fs[f] # NoFile
    /\ fs' = [fs EXCEPT ![f] = NoFile]
    /\ EnvStep
    /\ UNCHANGED <<disk, loaderUp>>

WriteCatalog(locale, doc) ==
    /\ Quiet
    /\ disk[locale]["common"] # doc
    /\ disk' = [disk EXCEPT ![locale]["common"] = doc]
    /\ EnvStep
    /\ UNCHANGED <<fs, loaderUp>>

ToggleLoader ==
    /\ Quiet
    /\ loaderUp' = ~loaderUp
    /\ EnvStep
    /\ UNCHANGED <<fs, disk>>

Next ==
    \/ \E c \in CallIds : StartScan(c)
    \/ \E c \in CallIds : \E in \in SingleInputs : StartSingle(c, in[1], in[2])
    \/ \E c \in CallIds : LoadDone(c)
    \/ \E c \in CallIds : GlobDone(c)
    \/ \E c \in CallIds : ReadDone(c)
    \/ \E c \in CallIds : AfterFile(c)
    \/ \E c \in CallIds : Return(c)
    \/ \E s \in {"S_NAV", "S_BAD"} : WriteFile("src/App.tsx", s)
    \/ RemoveFile("src/App.tsx")
    \/ WriteCatalog("fr", Missing)
    \/ ToggleLoader

\* scanSingleFile invocations only, overlapping, on an unchanging environment
NextConc ==
    \/ \E c \in CallIds : \E in \in SingleInputs : StartSingle(c, in[1], in[2])
    \/ \E c \in CallIds : LoadDone(c)
    \/ \E c \in CallIds : ReadDone(c)
    \/ \E c \in CallIds : AfterFile(c)
    \/ \E c \in CallIds : Return(c)

\* both entry points, one after the other, on an unchanging environment
NextAnyConfig ==
    \/ \E c \in CallIds : StartScan(c)
    \/ \E c \in CallIds : \E in \in SingleInputs : StartSingle(c, in[1], in[2])
    \/ \E c \in CallIds : LoadDone(c)
    \/ \E c \in CallIds : GlobDone(c)
    \/ \E c \in CallIds : ReadDone(c)
    \/ \E c \in CallIds : AfterFile(c)
    \/ \E c \in CallIds : Return(c)

Spec == Init /\ [][Next]_vars
SpecAnyConfig == InitAnyConfig /\ [][NextAnyConfig]_vars
SpecConc == InitConc /\ [][NextConc]_vars

\* ------------------------------------------------------ message validator
\* FormatJSAdapter.validateICUMessage, on code units.  Positions are 1-based.
OpenBrace == 123
CloseBrace == 125
Comma == 44

\* icuPattern.exec with lastIndex at from: /\{([^}]+)\}/ matches at the
\* leftmost '{' whose first following '}' is at least one character away
MatchStarts(codes, from) ==
    {i \in from..Len(codes) : codes[i] = OpenBrace /\ First(codes, CloseBrace, i + 1) > i + 1}

exec(codes, from) ==
    IF MatchStarts(codes, from) = {} THEN [found |-> FALSE]
    ELSE [found |-> TRUE,
          index |-> CHOOSE i \in MatchStarts(codes, from) :
                        \A k \in MatchStarts(codes, from) : i <= k]

\* parts[0] and parts[1] of icuExpression.split(','), trimmed
Part0(expr) == TrimRight(TrimLeft(SubSeq(expr, 1, First(expr, Comma, 1) - 1)))
Part1(expr) ==
    TrimRight(TrimLeft(
        SubSeq(expr, First(expr, Comma, 1) + 1,
               IF First(expr, Comma, First(expr, Comma, 1) + 1) = 0 THEN Len(expr)
               ELSE First(expr, Comma, First(expr, Comma, 1) + 1) - 1)))

icuTypes == {"plural", "select", "selectordinal", "number", "date", "time"}
pluralKeywords == {"zero", "one", "two", "few", "many", "other", "=0", "=1"}

\* the brace-counting loop: the position after the brace that closes the
\* expression, or after the end of the message
RECURSIVE CloseFrom(_, _, _)
CloseFrom(codes, index, braceCount) ==
    IF ~(index <= Len(codes) /\ braceCount > 0) THEN index
    ELSE CloseFrom(codes, index + 1,
                   IF codes[index] = OpenBrace THEN braceCount + 1
                   ELSE IF codes[index] = CloseBrace THEN braceCount - 1
                   ELSE braceCount)

\* message.substring(openBraceIndex + 1, index - 1)
extractFullPluralExpression(codes, openBraceIndex) ==
    SubSeq(codes, openBraceIndex + 1, CloseFrom(codes, openBraceIndex + 1, 1) - 2)

IcuError(error, expr) == [error |-> error, expression |-> expr]

validatePluralSyntax(fullExpression, errors, expr) ==
    IF fullExpression = <<>>
    THEN Append(errors, IcuError("Could not extract full plural expression", expr))
    ELSE (IF ~IsInfix(fullExpression, Utf16("other"))
          THEN Append(errors, IcuError("Missing required 'other' case in plural expression", expr))
          ELSE errors)
         \o (IF \A keyword \in pluralKeywords : ~IsInfix(fullExpression, Utf16(keyword))
             THEN <<IcuError("No valid plural cases found in expression", expr)>>
             ELSE <<>>)

\* the body of the while loop for one match
Checked(codes, index, expr, variable, type, errors) ==
    IF variable = <<>>
    THEN Append(errors, IcuError("Missing variable name in ICU expression", expr))
    ELSE IF type # <<>> /\ \A t \in icuTypes : Utf16(t) # type
    THEN Append(errors, IcuError("Invalid ICU type", expr))
    ELSE IF type = Utf16("plural") \/ type = Utf16("selectordinal")
    THEN validatePluralSyntax(extractFullPluralExpression(codes, index), errors, expr)
    ELSE errors

CheckedExpression(codes, index, expr, errors) ==
    IF \E i \in 1..Len(expr) : expr[i] = Comma
    THEN Checked(codes, index, expr, Part0(expr), Part1(expr), errors)
    ELSE errors

RECURSIVE ValidateFrom(_, _, _)
Matched(codes, match, errors) ==
    IF ~match.found THEN errors
    ELSE ValidateFrom(codes, First(codes, CloseBrace, match.index + 1) + 1,
             CheckedExpression(codes, match.index,
                 SubSeq(codes, match.index + 1, First(codes, CloseBrace, match.index + 1) - 1),
                 errors))

ValidateFrom(codes, from, errors) == Matched(codes, exec(codes, from), errors)

validateICUMessage(message) ==
    [valid |-> ValidateFrom(Utf16(message), 1, <<>>) = <<>>,
     errors |-> ValidateFrom(Utf16(message), 1, <<>>)]

\* ------------------------------------------------------ adapter selection
\* A config as adapter selection reads it: the library selector and the
\* names of the catalog blocks that are present.
adapters == <<"i18next", "formatjs", "lingui">>
Libraries == {"auto", "i18next", "formatjs", "lingui", "vue-i18n"}
SelectionConfigs ==
    [library : Libraries, catalogs : SUBSET {"i18next", "formatjs", "lingui"}]

\* Adapter.detect of the three adapters
I18nextDetect(cfg) == "i18next" \in cfg.catalogs
FormatJSDetect(cfg) == cfg.library = "formatjs" \/ "formatjs" \in cfg.catalogs
LinguiDetect(cfg) == "lingui" \in cfg.catalogs

detect(name, cfg) ==
    CASE name = "i18next" -> I18nextDetect(cfg)
      [] name = "formatjs" -> FormatJSDetect(cfg)
      [] name = "lingui" -> LinguiDetect(cfg)

\* for (const adapter of adapters) if (adapter.detect(config)) return adapter;
\* the adapters probed are recorded in order
RECURSIVE ProbeFrom(_, _, _)
ProbeFrom(cfg, i, probed) ==
    IF i > Len(adapters) THEN [kind |-> "none", probed |-> probed]
    ELSE IF detect(adapters[i], cfg)
    THEN [kind |-> "adapter", name |-> adapters[i], probed |-> Append(probed, adapters[i])]
    ELSE ProbeFrom(cfg, i + 1, Append(probed, adapters[i]))

AdapterNames == {adapters[i] : i \in 1..Len(adapters)}

\* detectAdapter of the adapters package
detectAdapter(cfg) ==
    IF cfg.library # "auto"
    THEN IF cfg.library \in AdapterNames
         THEN [kind |-> "adapter", name |-> cfg.library, probed |-> <<>>]
         ELSE [kind |-> "throw", error |-> "Unknown library", probed |-> <<>>]
    ELSE IF ProbeFrom(cfg, 1, <<>>).kind = "none"
    THEN [kind |-> "throw", error |-> "Could not auto-detect i18n library",
          probed |-> ProbeFrom(cfg, 1, <<>>).probed]
    ELSE ProbeFrom(cfg, 1, <<>>)

\* detectAdapter of the command line: an unknown selector falls through to
\* the probing, and no match returns null
cliDetectAdapter(cfg) ==
    IF cfg.library # "auto" /\ cfg.library \in AdapterNames
    THEN [kind |-> "adapter", name |-> cfg.library, probed |-> <<>>]
    ELSE IF ProbeFrom(cfg, 1, <<>>).kind = "none"
    THEN [kind |-> "null", probed |-> ProbeFrom(cfg, 1, <<>>).probed]
    ELSE ProbeFrom(cfg, 1, <<>>)

\* detectAdapter of cli.ts: its list holds the adapter classes, not
\* instances; a class's name is the class name and it has no detect, so the
\* first probe throws a TypeError
adapterClasses == <<"I18nextAdapter", "FormatJSAdapter", "LinguiAdapter">>

cliClassDetectAdapter(cfg) ==
    IF cfg.library # "auto" /\ \E i \in 1..Len(adapterClasses) : adapterClasses[i] = cfg.library
    THEN [kind |-> "class", name |-> cfg.library, probed |-> <<>>]
    ELSE [kind |-> "throw", error |-> "TypeError: adapter.detect is not a function",
          probed |-> <<>>]

\* --------------------------------------------- FormatJSAdapter catalogs
\* variant: a key the catalog already holds keeps its value
SetMessage_keepingFirst(catalog, fullKey, value) ==
    IF fullKey \in Keys(catalog) THEN catalog ELSE Put(catalog, fullKey, value)

\* catalog[fullKey] = value
SetMessage(catalog, fullKey, value) == Put(catalog, fullKey, value)

\* FormatJSAdapter.flattenMessages(obj, catalog, prefix): the catalog after
\* the entries of obj were written into it
RECURSIVE flattenMessages(_, _, _)
flattenMessages(obj, catalog, prefix) ==
    IF obj = <<>> THEN catalog
    ELSE LET key == Head(obj).k
             value == Head(obj).v
             fullKey == IF prefix # "" THEN prefix \o "." \o key ELSE key
             here == IF "str" \in DOMAIN value
                     THEN SetMessage(catalog, fullKey, value.str)
                     ELSE flattenMessages(value.obj, catalog, fullKey)
         IN  flattenMessages(Tail(obj), here, prefix)

\* for (const filePath of files): a file that cannot be read or parsed is
\* skipped with a warning
RECURSIVE LoadFiles(_, _)
LoadFiles(files, catalog) ==
    IF files = <<>> THEN catalog
    ELSE LoadFiles(Tail(files),
                   IF Head(files).ok THEN flattenMessages(Head(files).json, catalog, "")
                   ELSE catalog)

\* FormatJSAdapter.loadCatalogs: files[locale] is what the messagesGlobs
\* patterns list for the locale, in the order the files are processed
FormatJSLoadCatalogs(cfg, files) ==
    [l \in {cfg.locales[i] : i \in 1..Len(cfg.locales)} |-> LoadFiles(files[l], <<>>)]

\* --------------------------------------------------------- catalog writer
\* pureKey.split('.') for the keys that are written
DotParts ==
    "menu" :> <<"menu">> @@
    "late" :> <<"late">> @@
    "greeting" :> <<"greeting">> @@
    "nav" :> <<"nav">> @@
    "nav.title" :> <<"nav", "title">> @@
    "welcome" :> <<"welcome">> @@
    "welcome.title" :> <<"welcome", "title">>

\* UniversalCatalogWriter.setNested: objects are made along the path where
\* the value there is no object, and the last part is assigned
RECURSIVE setNested(_, _, _)
setNested(obj, path, value) ==
    IF Len(path) = 1 THEN Put(obj, path[1], Str(value))
    ELSE LET k == Head(path)
             cur == IF k \in Keys(obj) /\ "obj" \in DOMAIN Get(obj, k)
                    THEN Get(obj, k).obj ELSE <<>>
         IN  Put(obj, k, Obj(setNested(cur, Tail(path), value)))

\* writeI18nextEntry: 'ns:key.path' names the namespace, 'common' otherwise
EntryNamespace(key) == IF Len(key) > 1 /\ key[1] # "" THEN key[1] ELSE "common"
EntryPureKey(key) == IF Len(key) > 1 /\ key[1] # "" THEN key[2] ELSE key[1]

\* the file's JSON, {} when it cannot be read or parsed
ReadJson(files, locale, ns) ==
    IF ns \in DOMAIN files[locale] /\ files[locale][ns].ok THEN files[locale][ns].json
    ELSE <<>>

\* what writeI18nextEntry holds after readFile settled: the object with the
\* entry set
Entered(files, entry) ==
    setNested(ReadJson(files, entry.locale, EntryNamespace(entry.key)),
              DotParts[EntryPureKey(entry.key)], entry.value)

\* workspace.fs.writeFile(fileUri, JSON.stringify(obj))
Written(files, entry, obj) ==
    [files EXCEPT ![entry.locale] = (EntryNamespace(entry.key) :> Doc(obj)) @@ @]

\* writeEntryToLocale run to its end with nothing in between
writeEntryToLocale(files, key, value, locale) ==
    Written(files, [key |-> key, value |-> value, locale |-> locale],
            Entered(files, [key |-> key, value |-> value, locale |-> locale]))

\* ------------------------------------------- calls outside the Scanner
Pending == [kind |-> "pending"]

\* message templates handed to the validator
Messages ==
    {"{count, plural, one {1 item} other {# items}}", "{count, plural, one {1 item}}",
     "{count, plural, one {another item}}", "{n, plural, =0 {none} other {some}}",
     "{n, plural, few {some}}", "{n, selectordinal, one {#st} other {#th}}",
     "{n, plural, {x}}", "Hello {name}", "{n, bogus}", "{, plural, other {x}}",
     "{n, plural, other {#}"}

\* files a one-line source is scanned as, and the keygen.maxLen values
FnFiles == {"src/App.tsx", "src/Nav.jsx", "src/Main.js"}
MaxLens == {0, 8, DefaultMaxLen}

\* texts keys are generated for, and config.keygen.strategy
KeyTexts == {"Hello there", "Enter your email here", "***", "OK", ""}
Strategies == {"filePathSlug", "namespaceSlug", "hash"}

FnCalls ==
    {[fn |-> f, config |-> cfg, out |-> Pending] :
        f \in {"detectAdapter", "cliDetectAdapter", "cliClassDetectAdapter"},
        cfg \in SelectionConfigs}
    \cup
    {[fn |-> "scanFileContent", filePath |-> f, source |-> src, out |-> Pending] :
        f \in FnFiles, src \in MarkupSources}
    \cup
    {[fn |-> "validateICUMessage", message |-> m, out |-> Pending] : m \in Messages}
    \cup
    {[fn |-> f, text |-> t, filePath |-> p,
      config |-> [keygen |-> [strategy |-> st, maxLen |-> n]], out |-> Pending] :
        f \in {"I18nextAdapter.generateKey", "FormatJSAdapter.generateKey"},
        t \in KeyTexts, p \in FnFiles, st \in Strategies, n \in MaxLens}

\* message files a FormatJS glob lists, and how many files a locale has
MaxFiles == 2
MessageDocs ==
    {Doc(<<E("a", Str("one"))>>),
     Doc(<<E("a", Str("two")), E("b", Str("B"))>>),
     Doc(<<E("n", Obj(<<E("t", Str("T"))>>)), E("n.t", Str("flat"))>>),
     Missing}
Lists(S, n) == UNION {[1..k -> S] : k \in 0..n}

\* the namespace files of an i18next locale directory
NamespaceDocs == {Doc(DOC_FULL), Doc(DOC_PART), Missing}
TwoNamespaces == <<"common", "nav">>

CatalogCalls ==
    {[fn |-> "FormatJSAdapter.loadCatalogs", files |-> [en |-> e, fr |-> f],
      out |-> Pending] : e \in Lists(MessageDocs, MaxFiles), f \in Lists(MessageDocs, 1)}
    \cup
    {[fn |-> "I18nextAdapter.loadCatalogs",
      disk |-> [l \in Locales |-> [common |-> c, nav |-> n]], out |-> Pending] :
        c \in NamespaceDocs, n \in NamespaceDocs}

FnConfigs ==
    {[cfg EXCEPT !.keygen.maxLen = n] : cfg \in Configs, n \in MaxLens}

InitFn ==
    /\ mode = "fn"
    /\ config \in FnConfigs
    /\ adapter = FALSE
    /\ findingsRef = 0
    /\ arrays = [a \in 0..MaxCalls |-> <<>>]
    /\ fileCount = 0
    /\ catalogs = NotLoaded
    /\ usedKeys = {}
    /\ fs = [f \in PathSet |-> NoFile]
    /\ disk = [l \in Locales |-> [n \in {"common"} |-> Missing]]
    /\ loaderUp = TRUE
    /\ envChanges = 0
    /\ calls = [c \in CallIds |-> IdleCall]
    /\ fnCall \in FnCalls \cup CatalogCalls
    /\ fnCall.fn # "scanFileContent" => config \in Configs

\* the call returns or throws
Returns(fn, out) ==
    /\ fnCall.fn = fn
    /\ fnCall.out = Pending
    /\ fnCall' = [fnCall EXCEPT !.out = out]
    /\ UNCHANGED <<mode, config, adapter, scannerVars, envVars, calls>>

DetectAdapter == Returns("detectAdapter", detectAdapter(fnCall.config))
CliDetectAdapter == Returns("cliDetectAdapter", cliDetectAdapter(fnCall.config))
CliClassDetectAdapter ==
    Returns("cliClassDetectAdapter", cliClassDetectAdapter(fnCall.config))

\* scanFileContent on a Scanner whose invocation has loaded no catalogs
ScanFileContent ==
    Returns("scanFileContent",
            scanFileContent(IdleCall, fnCall.filePath, fnCall.source, Scanner))

ValidateICUMessage ==
    Returns("validateICUMessage", validateICUMessage(fnCall.message))

I18nextAdapterGenerateKey ==
    Returns("I18nextAdapter.generateKey",
            I18nextGenerateKey(fnCall.text, fnCall.filePath, fnCall.config))

FormatJSAdapterGenerateKey ==
    Returns("FormatJSAdapter.generateKey",
            FormatJSGenerateKey(fnCall.text, fnCall.filePath, fnCall.config))

FormatJSAdapterLoadCatalogs ==
    Returns("FormatJSAdapter.loadCatalogs", FormatJSLoadCatalogs(config, fnCall.files))

\* I18nextAdapter.loadCatalogs over a locale directory with two namespace files
I18nextAdapterLoadCatalogs ==
    Returns("I18nextAdapter.loadCatalogs", LoadLocales(config, fnCall.disk, TwoNamespaces))

NextFn ==
    \/ FormatJSAdapterLoadCatalogs
    \/ I18nextAdapterLoadCatalogs
    \/ ScanFileContent
    \/ I18nextAdapterGenerateKey
    \/ FormatJSAdapterGenerateKey
    \/ ValidateICUMessage
    \/ DetectAdapter
    \/ CliDetectAdapter
    \/ CliClassDetectAdapter

SpecFn == InitFn /\ [][NextFn]_vars

\* ---------------------------------------- catalog writes from the editor
\* writeI18nextEntry invocations on the i18next catalog files; an invocation
\* waits for readFile, then (createDirectory and) writeFile, and others run
\* in between.
MaxWrites == 2

WriteEntries ==
    {[key |-> k, value |-> v, locale |-> "fr"] :
        k \in {<<"common", "menu">>, <<"common", "welcome.title">>, <<"common", "nav">>,
               <<"late">>},
        v \in {"TODO:Translate", "Menu"}}

\* the scanner variables take no part outside the Scanner
Outside(m) ==
    /\ mode = m
    /\ config \in Configs
    /\ adapter = TRUE
    /\ findingsRef = 0
    /\ arrays = [a \in 0..MaxCalls |-> <<>>]
    /\ fileCount = 0
    /\ catalogs = NotLoaded
    /\ usedKeys = {}
    /\ fs = [f \in PathSet |-> NoFile]
    /\ loaderUp = TRUE
    /\ envChanges = 0
    /\ calls = [c \in CallIds |-> IdleCall]

InitWriter ==
    /\ Outside("writer")
    /\ disk \in {[l \in Locales |-> [n \in {"common"} |-> IF l = "en" THEN Doc(DOC_FULL) ELSE d]] :
                    d \in {Doc(DOC_FULL), Doc(DOC_PART), Missing}}
    /\ fnCall = [fn |-> "writer", before |-> disk, writes |-> <<>>, finished |-> <<>>]

\* writeI18nextEntry up to its first await
WriteI18nextEntry(entry) ==
    /\ Len(fnCall.writes) < MaxWrites
    /\ fnCall' = [fnCall EXCEPT !.writes = Append(@, [entry |-> entry, pc |-> "read"])]
    /\ UNCHANGED <<mode, config, adapter, scannerVars, envVars, calls>>

\* await readFile settles: JSON.parse, setNested, JSON.stringify
ReadSettles(i) ==
    /\ fnCall.writes[i].pc = "read"
    /\ fnCall' = [fnCall EXCEPT !.writes[i] =
                      [entry |-> @.entry, pc |-> "write", obj |-> Entered(disk, @.entry)]]
    /\ UNCHANGED <<mode, config, adapter, scannerVars, envVars, calls>>

\* await writeFile settles
WriteSettles(i) ==
    /\ fnCall.writes[i].pc = "write"
    /\ disk' = Written(disk, fnCall.writes[i].entry, fnCall.writes[i].obj)
    /\ fnCall' = [fnCall EXCEPT !.writes[i] = [entry |-> @.entry, pc |-> "done"],
                                !.finished = Append(@, i)]
    /\ UNCHANGED <<mode, config, adapter, scannerVars, fs, loaderUp, envChanges, calls>>

NextWriter ==
    \/ \E entry \in WriteEntries : WriteI18nextEntry(entry)
    \/ \E i \in 1..Len(fnCall.writes) : ReadSettles(i)
    \/ \E i \in 1..Len(fnCall.writes) : WriteSettles(i)

SpecWriter == InitWriter /\ [][NextWriter]_vars

\* ------------------------------------------------- editor: scanDocument
\* new Scanner(config, adapter).scanSingleFile(path, text) run to its end on
\* the catalog files as they are: the findings of the result
EditorScan(path, text, files) ==
    LET sc == [findings |-> <<>>, usedKeys |-> {}, fileCount |-> 0,
               catalogs |-> [loaded |-> TRUE, byLocale |-> loadCatalogs(config, files)]]
    IN  IF Truthy(text) THEN scanFileContent(IdleCall, path, text, sc).sc.findings
        ELSE scanFile(IdleCall, path, sc).sc.findings

\* DiagnosticProvider.jsonHasKey
RECURSIVE jsonHasKey(_, _)
jsonHasKey(value, parts) ==
    IF parts = <<>> THEN "str" \in DOMAIN value
    ELSE /\ "obj" \in DOMAIN value
         /\ Head(parts) \in Keys(value.obj)
         /\ jsonHasKey(Get(value.obj, Head(parts)), Tail(parts))

\* filterFalseMissingInDefaultLocale: a missing-key finding for the default
\* locale is dropped when its key has a namespace and the namespace file
\* holds the key
FalseMissing(f, files) ==
    /\ f.ruleId = "I18N002"
    /\ f.message[3] = config.defaultLocale
    /\ Len(f.message[2]) > 1
    /\ f.message[2][1] \in DOMAIN files[config.defaultLocale]
    /\ files[config.defaultLocale][f.message[2][1]].ok
    /\ jsonHasKey(Obj(files[config.defaultLocale][f.message[2][1]].json),
                  DotParts[f.message[2][2]])

filterFalseMissingInDefaultLocale(findings, files) ==
    SelectSeq(findings, LAMBDA f : ~FalseMissing(f, files))

\* the length of a key as it is written in the source
KeyLength(key) ==
    Len(Utf16(key[1])) + (IF Len(key) > 1 THEN 1 + Len(Utf16(key[2])) ELSE 0)

\* The text under a diagnostic's range.  The range starts one column before
\* the finding and ends at its end column; findStringLiteralRange narrows
\* the range of a missing-key finding to the key between its quotes when the
\* quoted key lies in the range, which it does when the range holds the
\* call  t('key')  to its closing parenthesis.
RangeText(f) ==
    IF f.ruleId = "I18N002" /\ f.endColumn - f.column >= KeyLength(f.source) + 5
    THEN [kind |-> "literal", key |-> f.source]
    ELSE [kind |-> "call", key |-> f.source]

Diagnostic(f) ==
    [code |-> f.ruleId, message |-> f.message, severity |-> f.severity,
     text |-> RangeText(f)]

\* scanDocument from the document's text to diagnosticCollection.set
Diagnostics(path, text, files) ==
    LET found == filterFalseMissingInDefaultLocale(EditorScan(path, text, files), files)
    IN  [i \in 1..Len(found) |-> Diagnostic(found[i])]

\* ------------------------------------------------- editor: quick fixes
\* provideCodeActions: the missing-key diagnostics grouped by key, in order
RECURSIVE missingKeysByKey(_, _)
missingKeysByKey(diagnostics, groups) ==
    IF diagnostics = <<>> THEN groups
    ELSE LET d == Head(diagnostics)
             key == d.message[2]
             locale == d.message[3]
             at == {i \in 1..Len(groups) : groups[i].key = key}
             next == IF d.code # "I18N002" THEN groups
                     ELSE IF at = {}
                     THEN Append(groups, [key |-> key, locales |-> <<locale>>,
                                          diagnostics |-> <<d>>])
                     ELSE [i \in 1..Len(groups) |->
                             IF i \in at
                             THEN [key |-> key,
                                   locales |-> IF \E n \in 1..Len(groups[i].locales) :
                                                      groups[i].locales[n] = locale
                                               THEN groups[i].locales
                                               ELSE Append(groups[i].locales, locale),
                                   diagnostics |-> Append(groups[i].diagnostics, d)]
                             ELSE groups[i]]
         IN  missingKeysByKey(Tail(diagnostics), next)

\* the command of a code action, with the diagnostics the action is for
AddMissingKeyCommand(diagnostics, text, locales) ==
    [command |-> "addMissingKey", diagnostics |-> diagnostics, text |-> text,
     locales |-> locales]

KeyActions(g) ==
    IF Len(g.locales) > 1
    THEN {AddMissingKeyCommand(g.diagnostics, g.diagnostics[1].text, g.locales)}
         \cup {AddMissingKeyCommand(<<g.diagnostics[i]>>, g.diagnostics[i].text,
                                    <<g.locales[i]>>) : i \in 1..Len(g.locales)}
    ELSE {AddMissingKeyCommand(g.diagnostics, g.diagnostics[1].text, g.locales)}

AllKeysAction(diagnostics, groups) ==
    IF Len(groups) > 1
    THEN {[command |-> "addAllMissingKeys",
           diagnostics |-> SelectSeq(diagnostics, LAMBDA d : d.code = "I18N002"),
           missingKeys |-> [i \in 1..Len(groups) |->
                              [key |-> groups[i].key, locales |-> groups[i].locales]]]}
    ELSE {}

Actions(diagnostics, groups) ==
    UNION {KeyActions(groups[i]) : i \in 1..Len(groups)}
        \cup AllKeysAction(diagnostics, groups)

provideCodeActions(diagnostics) == Actions(diagnostics, missingKeysByKey(diagnostics, <<>>))

\* the diagnostics the editor hands over: those under the cursor, which is
\* on one key, or those under a selection of the line
Contexts(diagnostics) ==
    {SelectSeq(diagnostics, LAMBDA d : d.message[2] = k) :
        k \in {diagnostics[i].message[2] : i \in 1..Len(diagnostics)}}
    \cup {diagnostics}

\* /\bt\(\s*['"]([^'"]+)['"]/ on the text under the range: the key when
\* the text holds the call, no match when it is the key alone
KeyFromT(text) == IF text.kind = "call" THEN text.key ELSE <<>>

\* writeEntryToLocale for each locale in turn
RECURSIVE WriteLocales(_, _, _)
WriteLocales(files, key, locales) ==
    IF locales = <<>> THEN files
    ELSE WriteLocales(writeEntryToLocale(files, key, "TODO:Translate", Head(locales)),
                      key, Tail(locales))

\* addMissingKey up to the rescan: the catalog files it leaves
addMissingKey(files, text, locales) ==
    IF KeyFromT(text) = <<>> THEN files
    ELSE WriteLocales(files, KeyFromT(text),
                      IF locales = <<>> THEN <<config.defaultLocale>> ELSE locales)

\* addAllMissingKeys up to the rescan
RECURSIVE addAllMissingKeys(_, _)
addAllMissingKeys(files, missingKeys) ==
    IF missingKeys = <<>> THEN files
    ELSE addAllMissingKeys(WriteLocales(files, Head(missingKeys).key,
                                        Head(missingKeys).locales),
                           Tail(missingKeys))

EditorFile == "src/App.tsx"

InitQuickFix ==
    /\ Outside("quickfix")
    /\ disk \in {[l \in Locales |-> [n \in {"common"} |-> IF l = "en" THEN e ELSE f]] :
                    e \in {Doc(DOC_FULL), Doc(DOC_PART)},
                    f \in {Doc(DOC_FULL), Doc(DOC_PART), Missing}}
    /\ \E text \in Documents :
          fnCall = [fn |-> "quickfix", pc |-> "open", text |-> text, diagnostics |-> <<>>]

\* scanDocument(document) for the opened document
ScanDocument ==
    /\ fnCall.fn = "quickfix" /\ fnCall.pc = "open"
    /\ fnCall' = [fnCall EXCEPT !.pc = "shown",
                                !.diagnostics = Diagnostics(EditorFile, fnCall.text, disk)]
    /\ UNCHANGED <<mode, config, adapter, scannerVars, envVars, calls>>

\* a quick fix ran to its end on catalog files that are now `files`: the
\* document was scanned again
Fixed(command, files) ==
    /\ disk' = files
    /\ fnCall' = [fn |-> "quickfix", pc |-> "fixed", text |-> fnCall.text,
                  command |-> command,
                  diagnostics |-> Diagnostics(EditorFile, fnCall.text, files)]
    /\ UNCHANGED <<mode, config, adapter, scannerVars, fs, loaderUp, envChanges, calls>>

AddMissingKey(command) ==
    /\ fnCall.fn = "quickfix" /\ fnCall.pc = "shown"
    /\ command.command = "addMissingKey"
    /\ Fixed(command, addMissingKey(disk, command.text, command.locales))

AddAllMissingKeys(command) ==
    /\ fnCall.fn = "quickfix" /\ fnCall.pc = "shown"
    /\ command.command = "addAllMissingKeys"
    /\ Fixed(command, addAllMissingKeys(disk, command.missingKeys))

Offered ==
    IF fnCall.fn = "quickfix" /\ fnCall.pc = "shown"
    THEN UNION {provideCodeActions(context) : context \in Contexts(fnCall.diagnostics)}
    ELSE {}

NextQuickFix ==
    \/ ScanDocument
    \/ \E command \in Offered : AddMissingKey(command)
    \/ \E command \in Offered : AddAllMissingKeys(command)

SpecQuickFix == InitQuickFix /\ [][NextQuickFix]_vars

\* ------------------------------------------------- editor: document events
\* scanDocument calls the editor has started for one document and not all of
\* which need have settled
MaxScans == 2

InitEditor ==
    /\ Outside("editor")
    /\ disk \in {[l \in Locales |-> [n \in {"common"} |-> IF l = "en" THEN e ELSE f]] :
                    e \in {Doc(DOC_FULL), Doc(DOC_PART)},
                    f \in {Doc(DOC_FULL), Doc(DOC_PART), Missing}}
    /\ \E text \in Documents :
          fnCall = [fn |-> "editor", opened |-> FALSE, text |-> text, scans |-> <<>>,
                    published |-> <<>>]

\* scanDocument(document) up to  await this.configLoader.loadConfig(...)
scanDocument(call) ==
    [call EXCEPT !.scans = Append(@, [pc |-> "config"])]

\* onDidOpenTextDocument
OnDidOpenTextDocument ==
    /\ fnCall.fn = "editor" /\ ~fnCall.opened
    /\ Len(fnCall.scans) < MaxScans
    /\ fnCall' = scanDocument([fnCall EXCEPT !.opened = TRUE])
    /\ UNCHANGED <<mode, config, adapter, scannerVars, envVars, calls>>

\* onDidChangeTextDocument: the document holds the new text when the
\* handler runs
OnDidChangeTextDocument(text) ==
    /\ fnCall.fn = "editor" /\ fnCall.opened
    /\ Len(fnCall.scans) < MaxScans
    /\ text # fnCall.text
    /\ fnCall' = scanDocument([fnCall EXCEPT !.text = text])
    /\ UNCHANGED <<mode, config, adapter, scannerVars, envVars, calls>>

\* onDidSaveTextDocument
OnDidSaveTextDocument ==
    /\ fnCall.fn = "editor" /\ fnCall.opened
    /\ Len(fnCall.scans) < MaxScans
    /\ fnCall' = scanDocument(fnCall)
    /\ UNCHANGED <<mode, config, adapter, scannerVars, envVars, calls>>

\* the awaits before the scan settle: scanSingleFile is called with
\* document.getText(), the text the document holds at this moment
ConfigSettles(i) ==
    /\ fnCall.fn = "editor"
    /\ fnCall.scans[i].pc = "config"
    /\ fnCall' = [fnCall EXCEPT !.scans[i] = [pc |-> "scan", text |-> fnCall.text]]
    /\ UNCHANGED <<mode, config, adapter, scannerVars, envVars, calls>>

\* await scanSingleFile and await filterFalseMissingInDefaultLocale settle:
\* diagnosticCollection.set(document.uri, diagnostics)
ScanSettles(i) ==
    /\ fnCall.fn = "editor"
    /\ fnCall.scans[i].pc = "scan"
    /\ fnCall' = [fnCall EXCEPT
                      !.scans[i] = [pc |-> "done", text |-> @.text],
                      !.published = Diagnostics(EditorFile, fnCall.scans[i].text, disk)]
    /\ UNCHANGED <<mode, config, adapter, scannerVars, envVars, calls>>

NextEditor ==
    \/ OnDidOpenTextDocument
    \/ \E text \in Documents : OnDidChangeTextDocument(text)
    \/ OnDidSaveTextDocument
    \/ \E i \in 1..Len(fnCall.scans) : ConfigSettles(i)
    \/ \E i \in 1..Len(fnCall.scans) : ScanSettles(i)

SpecEditor == InitEditor /\ [][NextEditor]_vars

\* ---------------------------------------------------------------- results
ResultFindings(c) == arrays[calls[c].findings]
FindingSet(findings) == {findings[i] : i \in 1..Len(findings)}

TypeOK ==
    \A c \in CallIds :
        calls[c].pc \in {"idle", "load", "glob", "read", "scanned", "coverage", "done"}

\* the keys the adapter extracted during an invocation
OwnKeys(c) == {site.key : site \in calls[c].sites}

\* the number of missing-key findings of a result for a call site and locale
MissingAt(c, site, locale) ==
    LET R == ResultFindings(c)
    IN  Cardinality({i \in 1..Len(R) :
            /\ R[i].ruleId = "I18N002" /\ R[i].severity = "error"
            /\ R[i].file = site.file /\ R[i].line = site.line
            /\ R[i].column = site.column
            /\ R[i].message = <<"Missing translation key", site.key, locale>>})

\* the number of missing-key findings of a result for a key and locale
MissingFor(c, key, locale) ==
    LET R == ResultFindings(c)
    IN  Cardinality({i \in 1..Len(R) :
            /\ R[i].ruleId = "I18N002"
            /\ R[i].message = <<"Missing translation key", key, locale>>})

\* the keys a result flags as unused
UnusedKeys(c) ==
    LET R == ResultFindings(c)
    IN  {R[i].source : i \in {j \in 1..Len(R) : R[j].ruleId = "I18N003"}}

LocaleSet == {config.locales[i] : i \in 1..Len(config.locales)}

\* ------------------------------------------------------------------- C1
\* C1: with catalogs loaded, every translation call the adapter recognised
\* has in the result one missing-key finding (I18N002, error, naming the key
\* and the locale) for each configured locale whose catalog lacks the call's
\* flattened key, and none for a locale whose catalog defines it.
C1_MissingKeyPerLocale ==
    \A c \in CallIds :
        (Done(c) /\ calls[c].store.loaded) =>
            \A site \in calls[c].sites : \A locale \in LocaleSet :
                MissingAt(c, site, locale) =
                    IF site.key \in Keys(calls[c].store.byLocale[locale]) THEN 0 ELSE 1

\* ------------------------------------------------------------------- C2
\* C2: at the end of a scan, for every key in the usage set and every
\* configured locale whose catalog does not contain the key, the findings
\* hold exactly one missing-key finding for that (key, locale) pair.
C2_OneMissingKeyPerKeyAndLocale ==
    \A c \in CallIds :
        (Done(c) /\ calls[c].store.loaded) =>
            \A key \in calls[c].usage : \A locale \in LocaleSet :
                key \notin Keys(calls[c].store.byLocale[locale]) =>
                    MissingFor(c, key, locale) = 1

\* ------------------------------------------------------------------- C3
\* C3: in a scan() with catalogs loaded, the unused-key findings (I18N003,
\* warning) are exactly the keys of the default locale's catalog that are
\* absent from the usage set of that scan, each flagged once.
C3_UnusedKeysAreDefaultMinusUsage ==
    \A c \in CallIds :
        (Done(c) /\ calls[c].kind = "scan" /\ adapter /\ calls[c].store.loaded) =>
            LET R == ResultFindings(c)
                reference == calls[c].store.byLocale[config.defaultLocale]
                flagged == {i \in 1..Len(R) : R[i].ruleId = "I18N003"}
            IN  /\ UnusedKeys(c) = Keys(reference) \ calls[c].usage
                /\ Cardinality(flagged) = Cardinality(UnusedKeys(c))
                /\ \A i \in flagged :
                      /\ R[i].severity = "warning"
                      /\ R[i].message = <<"Unused translation key", R[i].source>>

\* a scan that flagged one key of the default catalog and used another
C3_Witness ==
    \E c \in CallIds :
        /\ Done(c) /\ calls[c].kind = "scan" /\ adapter /\ calls[c].store.loaded
        /\ UnusedKeys(c) # {}
        /\ Keys(calls[c].store.byLocale[config.defaultLocale]) \cap calls[c].usage # {}

\* ------------------------------------------------------------------- C4
\* C4: the result of scanSingleFile holds no unused-key finding, whatever
\* the catalogs and the file content are.
C4_SingleFileHasNoUnusedKeyFinding ==
    \A c \in CallIds :
        (Done(c) /\ calls[c].kind = "single") =>
            \A i \in 1..Len(ResultFindings(c)) :
                ResultFindings(c)[i].ruleId \notin {"I18N003", "I18N102"}

\* a single-file scan that ended with default-catalog keys it did not use
C4_Witness ==
    \E c \in CallIds :
        /\ Done(c) /\ calls[c].kind = "single" /\ adapter /\ calls[c].store.loaded
        /\ Keys(calls[c].store.byLocale[config.defaultLocale]) \ calls[c].usage # {}

\* the hard-coded-text and missing-key findings of a result for one file
PerFile(findings, file) ==
    SelectSeq(findings, LAMBDA x : x.file = file /\ x.ruleId \in {"I18N001", "I18N002"})

\* ------------------------------------------------------------------- C5
\* C5: for a file that scan() scanned, its hard-coded-text and missing-key
\* findings for that file are the findings scanSingleFile returns for the
\* same path and content under the same config and catalogs.
C5_ScanAgreesWithSingleFile ==
    \A s \in CallIds : \A t \in CallIds :
        (/\ Done(s) /\ calls[s].kind = "scan"
         /\ Done(t) /\ calls[t].kind = "single"
         /\ calls[s].store = calls[t].store) =>
            \A p \in calls[s].texts \cap calls[t].texts :
                PerFile(ResultFindings(s), p[1]) = ResultFindings(t)

\* a scan and a single-file scan of the same text, with findings of both rules
C5_Witness ==
    \E s \in CallIds : \E t \in CallIds :
        /\ Done(s) /\ calls[s].kind = "scan"
        /\ Done(t) /\ calls[t].kind = "single"
        /\ calls[s].store = calls[t].store
        /\ \E p \in calls[s].texts \cap calls[t].texts :
              LET F == ResultFindings(t)
              IN  /\ \E i \in 1..Len(F) : F[i].ruleId = "I18N001"
                  /\ \E i \in 1..Len(F) : F[i].ruleId = "I18N002"
                  /\ Len(ResultFindings(s)) > Len(F)

\* ------------------------------------------------------------------- C6
\* C6: the usage set of an invocation holds only keys extracted during that
\* invocation, and a key of the default catalog that only an earlier
\* invocation used is flagged unused by a later scan.
C6_UsageSetIsPerInvocation ==
    \A c \in CallIds :
        /\ calls[c].pc \in {"coverage", "done"} => calls[c].usage \subseteq OwnKeys(c)
        /\ (Done(c) /\ calls[c].kind = "scan" /\ adapter /\ calls[c].store.loaded) =>
              \A d \in 1..(c - 1) :
                  \A key \in OwnKeys(d) \ OwnKeys(c) :
                      key \in Keys(calls[c].store.byLocale[config.defaultLocale])
                          => key \in UnusedKeys(c)

\* a scan that flags a key which an earlier invocation used and it did not
C6_Witness ==
    \E c \in CallIds : \E d \in CallIds :
        /\ d < c /\ Done(d) /\ Done(c) /\ calls[c].kind = "scan"
        /\ calls[c].usage # {}
        /\ (OwnKeys(d) \ OwnKeys(c)) \cap UnusedKeys(c) # {}

\* ------------------------------------------------------------------- C7
\* C7: when the scanSingleFile calls in progress are for different files,
\* each returns a result whose findings are exactly those of its own file
\* and whose summary counts only those findings.
C7_ConcurrentSingleFileResultsAreOwn ==
    (\A c \in CallIds : \A d \in CallIds :
        (c # d /\ calls[c].pc # "idle" /\ calls[d].pc # "idle")
            => calls[c].filePath # calls[d].filePath)
    => \A c \in CallIds :
          (Done(c) /\ calls[c].kind = "single") =>
              /\ ResultFindings(c) = calls[c].own
              /\ \A i \in 1..Len(ResultFindings(c)) :
                    ResultFindings(c)[i].file = calls[c].filePath
              /\ calls[c].summary =
                    generateSummary(calls[c].own, Cardinality(calls[c].parsed))

AdapterThrowsIn(c, ast, from, to) ==
    \E j \in from..to :
        adapter /\ calls[c].store.loaded /\ extractTranslationCalls(ast[j]).kind = "throw"

\* a text scan() could not read or could not parse
Failed(p) == p[2] = NoFile \/ ~parseCode(p[1], p[2]).ok

\* every node of a text's tree up to one on which the adapter throws was
\* handed to the rules
Traversed(c, p) ==
    LET ast == parseCode(p[1], p[2]).ast
    IN  /\ p[1] \in calls[c].parsed
        /\ \A m \in 1..Len(ast) :
              ~AdapterThrowsIn(c, ast, 1, m) =>
                  <<p[1], m, DEFAULT_RULES[1]>> \in calls[c].checked

\* C9: a scan() that met a file it could not read or parse logged a warning
\* for it and has no finding for it; its result comes after an attempt on
\* every file of its list, and every other file was parsed and traversed.
C9_FileFailureDoesNotAbortScan ==
    \A c \in CallIds :
        calls[c].kind = "scan" =>
            /\ \A p \in calls[c].texts :
                  Failed(p) =>
                      /\ \E w \in calls[c].log :
                            w.kind \in {"file", "content"} /\ w.file = p[1]
                      /\ \A i \in 1..Len(arrays[c]) : arrays[c][i].file # p[1]
            /\ Done(c) =>
                  /\ calls[c].files = calls[c].listed
                  /\ \A p \in calls[c].texts :
                        ~Failed(p) => Traversed(c, p)

\* a finished scan whose first file failed and whose second file has findings
C9_Witness ==
    \E c \in CallIds :
        /\ Done(c) /\ calls[c].kind = "scan" /\ Len(calls[c].files) = 2
        /\ \E p \in calls[c].texts : p[1] = calls[c].files[1] /\ Failed(p)
        /\ \E i \in 1..Len(ResultFindings(c)) :
              ResultFindings(c)[i].file = calls[c].files[2]

\* ------------------------------------------------------------------ C10
\* C10: after a rule's check threw on a node, every rule has run on that
\* node, the node's children and the nodes after it have been visited (up
\* to a node on which the adapter itself throws), and the missing-key
\* findings of the file's call sites, reported before and after, are there.
C10_RuleFailureIsCaughtPerRule ==
    \A c \in CallIds : \A w \in calls[c].log :
        w.kind = "rule" =>
            \A p \in {q \in calls[c].texts : q[1] = w.file} :
                LET ast == parseCode(p[1], p[2]).ast
                IN  /\ \A i \in 1..Len(DEFAULT_RULES) :
                          <<w.file, w.node, DEFAULT_RULES[i]>> \in calls[c].checked
                    /\ \A i \in 1..Len(ast[w.node].children) :
                          <<w.file, ast[w.node].children[i], DEFAULT_RULES[1]>>
                              \in calls[c].checked
                    /\ \A m \in (w.node + 1)..Len(ast) :
                          ~AdapterThrowsIn(c, ast, w.node + 1, m) =>
                              \A i \in 1..Len(DEFAULT_RULES) :
                                  <<w.file, m, DEFAULT_RULES[i]>> \in calls[c].checked
                    /\ \A site \in calls[c].sites :
                          (site.file = w.file /\ site.key \notin ObjectPrototypeKeys) =>
                              \A locale \in LocaleSet :
                                  site.key \notin Keys(calls[c].store.byLocale[locale])
                                      => \E i \in 1..Len(arrays[c]) :
                                            /\ arrays[c][i].ruleId = "I18N002"
                                            /\ arrays[c][i].line = site.line
                                            /\ arrays[c][i].column = site.column
                                            /\ arrays[c][i].message[3] = locale

\* a result with findings from before the failing node, from the call inside
\* it and from the lines after it
C10_Witness ==
    \E c \in CallIds : \E w \in calls[c].log :
        /\ Done(c) /\ w.kind = "rule"
        /\ \E p \in calls[c].texts :
              /\ p[1] = w.file /\ ~Failed(p)
              /\ LET ast == parseCode(p[1], p[2]).ast
                     R == PerFile(ResultFindings(c), w.file)
                 IN  /\ \E i \in 1..Len(R) : R[i].line < ast[w.node].line
                     /\ \E i \in 1..Len(R) :
                           /\ R[i].ruleId = "I18N002"
                           /\ R[i].line = ast[w.node].line
                           /\ R[i].column > ast[w.node].column
                     /\ \E i \in 1..Len(R) : R[i].line > ast[w.node].line

\* ------------------------------------------------------------------ C11
\* the invocation's loadCatalogs was rejected
LoadFailed(c) == [kind |-> "load", file |-> ""] \in calls[c].log

\* C11: an invocation whose loadCatalogs failed logged a warning and went on
\* with an empty Catalog Store: its result holds no missing-key and no
\* unused-key finding, and it used no catalog of an earlier invocation.
C11_LoadFailureGivesEmptyStore ==
    \A c \in CallIds :
        (Done(c) /\ LoadFailed(c)) =>
            /\ calls[c].store = NotLoaded
            /\ \A i \in 1..Len(ResultFindings(c)) :
                  ResultFindings(c)[i].ruleId \notin {"I18N002", "I18N003"}

\* ------------------------------------------------------------------ C12
\* a finished adapter selection
Selected == fnCall.fn \in {"detectAdapter", "cliDetectAdapter", "cliClassDetectAdapter"}
                /\ fnCall.out # Pending

\* C12: a config that names a library gets that adapter without a probe;
\* with 'auto' the first adapter in the order i18next, formatjs, lingui
\* whose detect is true is selected; when none is, selection throws.
C12_AdapterSelection ==
    Selected =>
        /\ fnCall.config.library \in AdapterNames =>
              /\ fnCall.out.kind = "adapter"
              /\ fnCall.out.name = fnCall.config.library
              /\ fnCall.out.probed = <<>>
        /\ fnCall.config.library = "auto" =>
              IF \E i \in 1..Len(adapters) : detect(adapters[i], fnCall.config)
              THEN /\ fnCall.out.kind = "adapter"
                   /\ \E i \in 1..Len(adapters) :
                         /\ fnCall.out.name = adapters[i]
                         /\ detect(adapters[i], fnCall.config)
                         /\ \A j \in 1..(i - 1) : ~detect(adapters[j], fnCall.config)
              ELSE fnCall.out.kind = "throw"

\* ------------------------------------------------------------------ C13
\* defaultLocale is no member of locales, or locales is empty
InvalidConfig(cfg) ==
    \/ Len(cfg.locales) = 0
    \/ \A i \in 1..Len(cfg.locales) : cfg.locales[i] # cfg.defaultLocale

\* C13: with a config whose defaultLocale is not in locales, or whose
\* locales list is empty, no invocation reads or scans a file and none runs
\* to completion.
C13_InvalidConfigIsRejected ==
    InvalidConfig(config) =>
        \A c \in CallIds :
            /\ calls[c].files = <<>>
            /\ ~Done(c)

\* ------------------------------------------------------------------ C14
\* a finished scanFileContent of a one-line source that parsed
Scanned(kind) ==
    /\ fnCall.fn = "scanFileContent" /\ fnCall.out # Pending
    /\ parseCode(fnCall.filePath, fnCall.source).ok
    /\ MarkupTable[fnCall.source].kind = kind

\* C14: a markup text node whose trimmed text has at least 3 characters and
\* passes the skip filter yields exactly one finding: rule I18N001, severity
\* warning, suggestion type 'externalize', for the trimmed text.
C14_TextNodeYieldsOneFinding ==
    Scanned("text") =>
        LET text == Trim(MarkupTable[fnCall.source].value)
            F == fnCall.out.sc.findings
        IN  (Len(Utf16(text)) >= 3 /\ shouldBeTranslated(text)) =>
                /\ Len(F) = 1
                /\ F[1].ruleId = "I18N001"
                /\ F[1].severity = "warning"
                /\ F[1].suggestion.type = "externalize"
                /\ F[1].source = text
                /\ F[1].file = fnCall.filePath

\* the text ' Hello there ' scanned in a .tsx file and in a .jsx file
C14_Witness ==
    /\ Scanned("text")
    /\ MarkupTable[fnCall.source].value = " Hello there "
    /\ Len(fnCall.out.sc.findings) = 1
    /\ fnCall.out.sc.fileCount = 1

\* ------------------------------------------------------------------ C15
\* the ASCII characters of the Unicode punctuation categories:
\* ! " # % & ' ( ) * , - . / : ; ? @ [ \ ] _ { }
PunctuationChars ==
    {33, 34, 35, 37, 38, 39, 40, 41, 42, 44, 45, 46, 47, 58, 59, 63, 64, 91, 92, 93, 95,
     123, 125}

\* text of one of the four kinds that are to be skipped
ToBeSkipped(text) ==
    \/ Len(Utf16(text)) < 3
    \/ \A i \in 1..Len(Utf16(text)) : IsSpace(Utf16(text)[i])
    \/ \A i \in 1..Len(Utf16(text)) :
          Utf16(text)[i] \in Digits \/ Utf16(text)[i] \in PunctuationChars
    \/ text \in nonTranslatable

\* the text the rule examines: a text node's trimmed value, an attribute's value
Examined ==
    IF MarkupTable[fnCall.source].kind = "text"
    THEN Trim(MarkupTable[fnCall.source].value)
    ELSE MarkupTable[fnCall.source].value

\* C15: no hard-coded-text finding for text shorter than 3 characters, all
\* whitespace, made of digits and punctuation only, or on the denylist.
C15_SkippedTextHasNoFinding ==
    (Scanned("text") \/ Scanned("attr")) =>
        (ToBeSkipped(Examined) => fnCall.out.sc.findings = <<>>)

\* ------------------------------------------------------------------ C16
\* C16: a quoted string value of an allowlisted attribute that passes the
\* skip filter yields exactly one hard-coded-text finding, in a file the
\* TypeScript parser reads and in a file the Babel parser reads.
C16_AttributeYieldsOneFindingInEveryFileKind ==
    (/\ fnCall.fn = "scanFileContent" /\ fnCall.out # Pending
     /\ MarkupTable[fnCall.source].kind = "attr"
     /\ isTranslatableAttribute(Str(MarkupTable[fnCall.source].name)) = "yes"
     /\ shouldBeTranslated(MarkupTable[fnCall.source].value)) =>
        /\ Len(fnCall.out.sc.findings) = 1
        /\ fnCall.out.sc.findings[1].ruleId = "I18N001"
        /\ fnCall.out.sc.findings[1].source = MarkupTable[fnCall.source].value

\* ------------------------------------------------------------------ C18
\* the case selectors of the messages that are one plural expression
PluralCases ==
    "{count, plural, one {1 item} other {# items}}" :> {"one", "other"} @@
    "{count, plural, one {1 item}}" :> {"one"} @@
    "{count, plural, one {another item}}" :> {"one"} @@
    "{n, plural, =0 {none} other {some}}" :> {"=0", "other"} @@
    "{n, plural, few {some}}" :> {"few"}

\* C18: validateICUMessage returns no error for a plural expression with an
\* 'other' case, and exactly one error, the missing 'other' case, for a
\* plural expression with a recognised case and no 'other'.
C18_PluralNeedsOtherCase ==
    (/\ fnCall.fn = "validateICUMessage" /\ fnCall.out # Pending
     /\ fnCall.message \in DOMAIN PluralCases) =>
        IF "other" \in PluralCases[fnCall.message]
        THEN fnCall.out.valid /\ fnCall.out.errors = <<>>
        ELSE PluralCases[fnCall.message] \cap pluralKeywords # {} =>
                /\ ~fnCall.out.valid
                /\ Len(fnCall.out.errors) = 1
                /\ fnCall.out.errors[1].error =
                       "Missing required 'other' case in plural expression"

\* ------------------------------------------------------------------ C17
\* the number of ICU-syntax findings of a result at a call site
IcuFindingsAt(c, site) ==
    Cardinality({i \in 1..Len(ResultFindings(c)) :
        /\ ResultFindings(c)[i].ruleId = "I18N201"
        /\ ResultFindings(c)[i].file = site.file
        /\ ResultFindings(c)[i].line = site.line})

\* C17: for every message template the adapter extracted, the result holds
\* one ICU-syntax finding per error the Message Validator gives for it, and
\* summary.icuErrors counts them.
C17_IcuRuleReportsValidatorErrors ==
    \A c \in CallIds :
        Done(c) =>
            \A site \in calls[c].sites :
                site.message # Undefined =>
                    /\ IcuFindingsAt(c, site) = Len(validateICUMessage(site.message).errors)
                    /\ calls[c].summary.icuErrors >= IcuFindingsAt(c, site)

\* ------------------------------------------------------------------ C19
\* C19: with keygen.maxLen = N >= 0, a key an adapter's generateKey returns
\* and the key in a hard-coded-text finding's suggestion have length <= N.
C19_GeneratedKeyWithinMaxLen ==
    /\ (/\ fnCall.fn \in {"I18nextAdapter.generateKey", "FormatJSAdapter.generateKey"}
        /\ fnCall.out # Pending) =>
           Len(fnCall.out) <= fnCall.config.keygen.maxLen
    /\ (fnCall.fn = "scanFileContent" /\ fnCall.out # Pending) =>
           \A i \in 1..Len(fnCall.out.sc.findings) :
               fnCall.out.sc.findings[i].ruleId = "I18N001" =>
                   Len(fnCall.out.sc.findings[i].suggestion.keyName) <= config.keygen.maxLen

\* ------------------------------------------------------------------ C20
\* C20: in every result each finding's position is 1-based: line >= 1 and
\* column >= 1, and endLine >= 1 and endColumn >= 1 when they are present.
C20_PositionsAreOneBased ==
    \A c \in CallIds :
        Done(c) =>
            \A i \in 1..Len(ResultFindings(c)) :
                /\ ResultFindings(c)[i].line >= 1
                /\ ResultFindings(c)[i].column >= 1
                /\ "endLine" \in DOMAIN ResultFindings(c)[i] =>
                      ResultFindings(c)[i].endLine >= 1
                /\ "endColumn" \in DOMAIN ResultFindings(c)[i] =>
                      ResultFindings(c)[i].endColumn >= 1

\* ------------------------------------------------------------------ C21
\* the coverage entry of a locale, when the report has one
HasEntry(coverage, locale) ==
    coverage.byLocale # <<>> /\ locale \in DOMAIN coverage.byLocale

\* C21: after a scan with loaded catalogs, coverage.byLocale has an entry for
\* every configured locale, with translatedKeys <= totalKeys, totalKeys no
\* more than the keys the Catalog Store holds, and 0 <= percentage <= 100.
C21_CoverageHasEveryLocale ==
    \A c \in CallIds :
        (Done(c) /\ calls[c].kind = "scan" /\ calls[c].store.loaded) =>
            \A locale \in LocaleSet :
                /\ HasEntry(calls[c].coverage, locale)
                /\ LET entry == calls[c].coverage.byLocale[locale]
                       stored == UNION {Keys(calls[c].store.byLocale[l]) : l \in LocaleSet}
                   IN  /\ entry.translatedKeys <= entry.totalKeys
                       /\ entry.totalKeys <= Cardinality(stored)
                       /\ entry.percentage \in 0..100

\* ------------------------------------------------------------------ C22
\* C22: in every result, summary.hardCoded, missing, unused and icuErrors
\* are the numbers of the result's findings whose ruleId is in the category
\* (I18N001; I18N002, I18N101; I18N003, I18N102; I18N201, I18N202), and
\* their sum is at most findings.length.
C22_SummaryTalliesFindings ==
    \A c \in CallIds :
        Done(c) =>
            /\ calls[c].summary.hardCoded = Count(ResultFindings(c), {"I18N001"})
            /\ calls[c].summary.missing = Count(ResultFindings(c), {"I18N002", "I18N101"})
            /\ calls[c].summary.unused = Count(ResultFindings(c), {"I18N003", "I18N102"})
            /\ calls[c].summary.icuErrors = Count(ResultFindings(c), {"I18N201", "I18N202"})
            /\ calls[c].summary.hardCoded + calls[c].summary.missing
                   + calls[c].summary.unused + calls[c].summary.icuErrors
                 <= Len(ResultFindings(c))

\* ------------------------------------------------------------------ C23
\* what each catalog file of a locale produces on its own, in processing
\* order, for a finished loadCatalogs of either adapter
Produced(locale) ==
    IF fnCall.fn = "FormatJSAdapter.loadCatalogs"
    THEN [i \in 1..Len(fnCall.files[locale]) |->
            IF fnCall.files[locale][i].ok
            THEN flattenMessages(fnCall.files[locale][i].json, <<>>, "")
            ELSE <<>>]
    ELSE [i \in 1..Len(TwoNamespaces) |->
            IF fnCall.disk[locale][TwoNamespaces[i]].ok
            THEN flattenCatalog(fnCall.disk[locale][TwoNamespaces[i]].json,
                                TwoNamespaces[i], "")
            ELSE <<>>]

CatalogsLoaded ==
    /\ fnCall.fn \in {"FormatJSAdapter.loadCatalogs", "I18nextAdapter.loadCatalogs"}
    /\ fnCall.out # Pending

\* the last file of the locale that produces key k
LastWith(locale, k) ==
    CHOOSE i \in 1..Len(Produced(locale)) :
        /\ k \in Keys(Produced(locale)[i])
        /\ \A j \in (i + 1)..Len(Produced(locale)) : k \notin Keys(Produced(locale)[j])

\* C23: the Catalog Store of a locale holds exactly the keys its catalog
\* files produce, each with the value from the last file that produces it.
C23_LastFileWinsOnCollision ==
    CatalogsLoaded =>
        \A locale \in LocaleSet :
            /\ Keys(fnCall.out[locale]) =
                   UNION {Keys(Produced(locale)[i]) : i \in 1..Len(Produced(locale))}
            /\ \A k \in Keys(fnCall.out[locale]) :
                   Get(fnCall.out[locale], k) =
                       Get(Produced(locale)[LastWith(locale, k)], k)

\* two files of a locale produce the same key with different values, and
\* the second file holds another key as well
C23_Witness ==
    /\ CatalogsLoaded
    /\ \E i \in 1..Len(Produced("en")) : \E j \in 1..Len(Produced("en")) :
          /\ i < j
          /\ \E k \in Keys(Produced("en")[i]) \cap Keys(Produced("en")[j]) :
                Get(Produced("en")[i], k) # Get(Produced("en")[j], k)
          /\ Keys(Produced("en")[j]) \ Keys(Produced("en")[i]) # {}

\* ------------------------------------------------------------------ C24
\* C24: with the i18next adapter and catalogs loaded, a call whose key has
\* no 'namespace:' prefix is not reported as missing for a locale whose
\* 'common' namespace catalog defines the key.
C24_UnprefixedKeyResolvesInCommon ==
    \A c \in CallIds :
        (Done(c) /\ adapter /\ calls[c].store.loaded) =>
            \A site \in calls[c].sites : \A locale \in LocaleSet :
                (/\ Len(site.key) = 1
                 /\ <<"common", site.key[1]>> \in Keys(calls[c].store.byLocale[locale])) =>
                    MissingAt(c, site, locale) = 0

\* ------------------------------------------------------------------ C25
\* findings of the unused-key pass among those an invocation added
UnusedIn(findings) == Count(findings, {"I18N003"})

\* one step of the program, seen from scan() invocation c
ScanOrder(c) ==
    LET a == calls[c]
        b == calls'[c]
    IN  b.kind = "scan" =>
            \* loadCatalogs is awaited once, first, when there is an adapter
            /\ (b.pc = "load" /\ a.pc # "load") => a.pc = "idle"
            /\ (a.pc = "idle" /\ adapter) => b.pc = "load"
            /\ (a.pc = "load" /\ b.pc # "load") => b.pc = "glob"
            /\ b.pc \in {"load", "glob"} => b.files = <<>>
            \* one file at a time
            /\ Len(b.files) <= Len(a.files) + 1
            \* no unused-key finding while files remain
            /\ b.pc \in {"load", "glob", "read", "scanned"} => UnusedIn(b.own) = 0
            \* the summary is computed when every listed file was traversed
            \* or skipped, over the findings with those of the unused-key pass
            /\ (a.pc \notin {"coverage", "done"} /\ b.pc = "coverage") =>
                  /\ b.files = b.listed
                  /\ b.summary = generateSummary(arrays'[c], fileCount')
                  /\ arrays'[c] = b.own
            \* nothing is added afterwards
            /\ a.pc \in {"coverage", "done"} =>
                  /\ arrays'[c] = arrays[c]
                  /\ b.summary = a.summary
                  /\ b.pc \in {"coverage", "done"}

C26_SuppliedContentIsScanned ==
    \A c \in CallIds :
        (Done(c) /\ calls[c].kind = "single" /\ calls[c].content # Undefined) =>
            calls[c].texts = {<<calls[c].filePath, calls[c].content>>}

\* ------------------------------------------------------------------ C27
\* C27: no two findings of a result share an id.
C27_FindingIdsAreUnique ==
    \A c \in CallIds :
        Done(c) =>
            \A i \in 1..Len(ResultFindings(c)) : \A j \in 1..Len(ResultFindings(c)) :
                i # j => ResultFindings(c)[i].id # ResultFindings(c)[j].id

\* ------------------------------------------------------------------ C30
\* the flattened key an entry is written under
EntryKey(entry) == <<EntryNamespace(entry.key), EntryPureKey(entry.key)>>

\* the entries of a locale's catalog files, flattened
Entries(files, locale) ==
    IF files[locale]["common"].ok
    THEN flattenCatalog(files[locale]["common"].json, "common", "")
    ELSE <<>>

WritesDone ==
    /\ fnCall.fn = "writer"
    /\ fnCall.writes # <<>>
    /\ \A i \in 1..Len(fnCall.writes) : fnCall.writes[i].pc = "done"

\* the write of key k that finished last
LastWrite(k) ==
    fnCall.writes[fnCall.finished[
        CHOOSE n \in 1..Len(fnCall.finished) :
            /\ EntryKey(fnCall.writes[fnCall.finished[n]].entry) = k
            /\ \A m \in (n + 1)..Len(fnCall.finished) :
                  EntryKey(fnCall.writes[fnCall.finished[m]].entry) # k]]

\* C30: after catalog-entry writes to a locale's catalog file, overlapping
\* or not, the file holds every entry it held before with its value, unless
\* the key was written, and every written key with its last written value.
C30_WritesKeepOtherEntries ==
    WritesDone =>
        LET before == Entries(fnCall.before, "fr")
            after == Entries(disk, "fr")
            written == {EntryKey(fnCall.writes[i].entry) : i \in 1..Len(fnCall.writes)}
        IN  /\ \A k \in Keys(before) \ written :
                  k \in Keys(after) /\ Get(after, k) = Get(before, k)
            /\ \A k \in written :
                  k \in Keys(after) /\ Get(after, k) = LastWrite(k).entry.value

\* ------------------------------------------------------------------ C28
\* a quick fix for missing keys has completed
QuickFixDone == fnCall.fn = "quickfix" /\ fnCall.pc = "fixed"

\* the missing-key diagnostics for key and locale among those published
StillMissing(key, locale) ==
    {i \in 1..Len(fnCall.diagnostics) :
        /\ fnCall.diagnostics[i].code = "I18N002"
        /\ fnCall.diagnostics[i].message[2] = key
        /\ fnCall.diagnostics[i].message[3] = locale}

\* C28: after addMissingKey or addAllMissingKeys has completed, every key K
\* and locale L of a diagnostic the fix was invoked on has K in L's catalog,
\* and the rescan of the document publishes no missing-key diagnostic for
\* (K, L), with or without a namespace prefix in K.
C28_QuickFixAddsTheKey ==
    QuickFixDone =>
        \A i \in 1..Len(fnCall.command.diagnostics) :
            LET key == fnCall.command.diagnostics[i].message[2]
                locale == fnCall.command.diagnostics[i].message[3]
            IN  /\ <<EntryNamespace(key), EntryPureKey(key)>> \in Keys(Entries(disk, locale))
                /\ StillMissing(key, locale) = {}

\* ------------------------------------------------------------------ C29
\* every scanDocument call the editor started has published its diagnostics
AllScansFinished ==
    /\ fnCall.fn = "editor"
    /\ fnCall.scans # <<>>
    /\ \A i \in 1..Len(fnCall.scans) : fnCall.scans[i].pc = "done"

\* C29: when scanDocument is started for successive versions of a document
\* without waiting for earlier scans, then once all started scans have
\* finished the published diagnostics are those computed from the latest
\* text of the document.
C29_LatestTextIsPublished ==
    AllScansFinished =>
        fnCall.published = Diagnostics(EditorFile, fnCall.text, disk)

====
